---- MODULE Spec2Model ----
(***************************************************************************)
(* Deliberate: the command-risk decision engine of the PreToolUse hook     *)
(* src/hooks/deliberate-commands.py.                                       *)
(*                                                                         *)
(* A Python str is modelled as a sequence of one-character strings, so     *)
(* that strip(), startswith(), `in` and lower() are computed, not assumed. *)
(***************************************************************************)
EXTENDS Integers, Sequences, FiniteSets, TLC

VARIABLES
  files,        \* ~/.claude: file name -> None (absent) or its JSON document
  stale,        \* names of the files whose mtime is older than seven days
  backups,      \* the backup records under ~/.deliberate/backups
  config,       \* the options read from config.json
  procs,        \* the hook processes: position in main and local variables
  started,      \* number of hook invocations so far
  asked,        \* (session, command) pairs whose ASK prompt was surfaced
  inputs,       \* the sets this run draws the hook's inputs from
  probe         \* input and result of one pure-function application

hookVars == <<files, stale, backups, config, procs, started, asked, inputs>>

vars ==
  <<files, stale, backups, config, procs, started, asked, inputs, probe>>

\* Python's None; every optional value is a record, so that it can be
\* compared with None
NoValue == [py |-> "None"]
PyStr(text) == [py |-> "str", v |-> text]

\* no pure function is being probed
NoProbe == [kind |-> "none"]

\* the hook is not running: the pure-function specifications leave its
\* state empty
HookAbsent ==
  /\ files = <<>>
  /\ stale = {}
  /\ backups = {}
  /\ config = <<>>
  /\ procs = <<>>
  /\ started = 0
  /\ asked = {}
  /\ inputs = <<>>

\* the character ` (a TLA+ string cannot hold it)
Backtick == "backtick"

----------------------------------------------------------------------------
(* str helpers                                                              *)

\* str.strip() with no argument removes leading and trailing whitespace
Whitespace == {" ", "\t", "\n", "\r"}

RECURSIVE lstrip(_)
lstrip(s) ==
  IF s # <<>> /\ Head(s) \in Whitespace THEN lstrip(Tail(s)) ELSE s

RECURSIVE rstrip(_)
rstrip(s) ==
  IF s # <<>> /\ s[Len(s)] \in Whitespace
    THEN rstrip(SubSeq(s, 1, Len(s) - 1))
    ELSE s

strip(s) == rstrip(lstrip(s))

\* s.startswith(prefix)
startswith(s, prefix) ==
  /\ Len(prefix) <= Len(s)
  /\ SubSeq(s, 1, Len(prefix)) = prefix

\* sub in s
contains(s, sub) ==
  \E i \in 0..(Len(s) - Len(sub)) : SubSeq(s, i + 1, i + Len(sub)) = sub

UpperCase ==
  {"A", "B", "C", "D", "E", "F", "G", "H", "I", "J", "K", "L", "M",
   "N", "O", "P", "Q", "R", "S", "T", "U", "V", "W", "X", "Y", "Z"}

UpperToLower ==
  [c \in UpperCase |->
     CASE c = "A" -> "a" [] c = "B" -> "b" [] c = "C" -> "c" [] c = "D" -> "d"
       [] c = "E" -> "e" [] c = "F" -> "f" [] c = "G" -> "g" [] c = "H" -> "h"
       [] c = "I" -> "i" [] c = "J" -> "j" [] c = "K" -> "k" [] c = "L" -> "l"
       [] c = "M" -> "m" [] c = "N" -> "n" [] c = "O" -> "o" [] c = "P" -> "p"
       [] c = "Q" -> "q" [] c = "R" -> "r" [] c = "S" -> "s" [] c = "T" -> "t"
       [] c = "U" -> "u" [] c = "V" -> "v" [] c = "W" -> "w" [] c = "X" -> "x"
       [] c = "Y" -> "y" [] c = "Z" -> "z"]

\* str.lower()
lower(s) ==
  [i \in 1..Len(s) |-> IF s[i] \in UpperCase THEN UpperToLower[s[i]] ELSE s[i]]

\* a Python tuple and a Python list with the same items are different values
\* (tuple == list is False); json.dump writes both as a JSON array and
\* json.load reads every array back as a list
PyTuple(items) == [py |-> "tuple", v |-> items]
PyList(items) == [py |-> "list", v |-> items]

\* all strings over an alphabet of length at most n
RECURSIVE StringsUpTo(_, _)
StringsUpTo(alphabet, n) ==
  IF n = 0 THEN {<<>>}
  ELSE LET shorter == StringsUpTo(alphabet, n - 1)
       IN  shorter \cup {Append(s, c) : s \in shorter, c \in alphabet}

----------------------------------------------------------------------------
(* Pattern matcher: the skip predicate                                      *)

DEFAULT_SKIP_COMMANDS ==
  {
    <<"l", "s">>,
    <<"l", "l">>,
    <<"l", "a">>,
    <<"d", "i", "r">>,
    <<"t", "r", "e", "e">>,
    <<"p", "w", "d">>,
    <<"w", "h", "o", "a", "m", "i">>,
    <<"h", "o", "s", "t", "n", "a", "m", "e">>,
    <<"d", "a", "t", "e">>,
    <<"u", "p", "t", "i", "m", "e">>,
    <<"u", "n", "a", "m", "e">>,
    <<"w", "h", "i", "c", "h">>,
    <<"w", "h", "e", "r", "e", "i", "s">>,
    <<"t", "y", "p", "e", " ", "-", "t">>,
    <<"t", "y", "p", "e", " ", "-", "a">>,
    <<"g", "i", "t", " ", "s", "t", "a", "t", "u", "s">>,
    <<"g", "i", "t", " ", "l", "o", "g">>,
    <<"g", "i", "t", " ", "d", "i", "f", "f">>,
    <<"g", "i", "t", " ", "b", "r", "a", "n", "c", "h">>,
    <<"g", "i", "t", " ", "r", "e", "m", "o", "t", "e", " ", "-", "v">>,
    <<"g", "i", "t", " ", "b", "l", "a", "m", "e">>,
    <<"g", "i", "t", " ", "s", "h", "o", "r", "t", "l", "o", "g">>,
    <<"g", "i", "t", " ", "t", "a", "g">>,
    <<"g", "i", "t", " ", "s", "t", "a", "s", "h", " ", "l", "i", "s", "t">>
  }

DANGEROUS_SHELL_OPERATORS ==
  {
    <<"|">>,
    <<">">>,
    <<">", ">">>,
    <<";">>,
    <<"&", "&">>,
    <<"|", "|">>,
    <<Backtick>>,
    <<"$", "(">>,
    <<"<">>,
    <<"&">>
  }

\* faulty variant: the operator table lacks the single "&"
has_dangerous_operators_NoAmpersand(command) ==
  \E op \in DANGEROUS_SHELL_OPERATORS \ {<<"&">>} : contains(command, op)

\* has_dangerous_operators(command)
has_dangerous_operators(command) ==
  \E op \in DANGEROUS_SHELL_OPERATORS : contains(command, op)

\* faulty variant: a bare prefix match, with no word boundary after the token
should_skip_command_NoBoundary(command, skip_set) ==
  LET cmd_stripped == strip(command)
  IN  IF has_dangerous_operators(cmd_stripped)
        THEN FALSE
        ELSE \E skip_cmd \in skip_set : startswith(cmd_stripped, skip_cmd)

\* should_skip_command(command, skip_set)
should_skip_command(command, skip_set) ==
  LET cmd_stripped == strip(command)
  IN  IF has_dangerous_operators(cmd_stripped)
        THEN FALSE
        ELSE \E skip_cmd \in skip_set :
               \/ cmd_stripped = skip_cmd
               \/ startswith(cmd_stripped, skip_cmd \o <<" ">>)
               \/ startswith(cmd_stripped, skip_cmd \o <<"\t">>)

----------------------------------------------------------------------------
(* Specification SpecSkip: should_skip_command applied to every short      *)
(* command over an alphabet holding every operator character, blank        *)
(* characters and the letters of the skip tokens.                          *)

MaxSkipCmdLen == 4

SkipAlphabet ==
  {"l", "s", "o", " ", "\t", "\n", "|", ">", "<", ";", "&", Backtick, "$", "("}

\* skip tokens a configuration may hold: a one-word and a two-word token
SkipTokens == {<<"l", "s">>, <<"l", " ", "s">>}

SkipInit ==
  /\ HookAbsent
  /\ probe \in [kind : {"skip"},
             command : StringsUpTo(SkipAlphabet, MaxSkipCmdLen),
             skip_set : SUBSET SkipTokens,
             state : {"input"},
             result : {FALSE}]

ApplySkip ==
  /\ probe.kind = "skip"
  /\ probe.state = "input"
  /\ probe' = [probe EXCEPT !.state = "applied",
                 !.result = should_skip_command(probe.command, probe.skip_set)]
  /\ UNCHANGED hookVars

SkipNext == ApplySkip

SpecSkip == SkipInit /\ [][SkipNext]_vars

\* the characters that alone make an operator, and the two-character "$("
OperatorChars == {"|", ">", "<", ";", "&", Backtick}

HasOperatorAt(s, i) ==
  \/ s[i] \in OperatorChars
  \/ i < Len(s) /\ s[i] = "$" /\ s[i + 1] = "("

ContainsOperator(s) == \E i \in 1..Len(s) : HasOperatorAt(s, i)

\* the trimmed command, by positions: from the first to the last character
\* that is not blank
NonBlankPositions(s) == {i \in 1..Len(s) : s[i] \notin Whitespace}

Trimmed(s) ==
  IF NonBlankPositions(s) = {} THEN <<>>
  ELSE LET first == CHOOSE i \in NonBlankPositions(s) :
                      \A j \in NonBlankPositions(s) : i <= j
           last  == CHOOSE i \in NonBlankPositions(s) :
                      \A j \in NonBlankPositions(s) : j <= i
       IN  SubSeq(s, first, last)

\* t is the whole text, or is followed in it by a space or a tab
TokenWithBoundary(text, t) ==
  /\ Len(t) <= Len(text)
  /\ \A i \in 1..Len(t) : text[i] = t[i]
  /\ Len(text) > Len(t) => text[Len(t) + 1] \in {" ", "\t"}

\* the text begins with a skip token, and every token it begins with is
\* followed in it by a character that is neither a space nor a tab
MerelyBeginsWithToken(text, skip_set) ==
  LET begun == {t \in skip_set : startswith(text, t)}
  IN  /\ begun # {}
      /\ \A t \in begun :
           /\ Len(text) > Len(t)
           /\ text[Len(t) + 1] \notin {" ", "\t"}

SkipApplied == probe.kind = "skip" /\ probe.state = "applied"

\* C1: a command that contains any of the shell operators | > >> < ; && ||
\* backtick $( & is never skipped, whatever token it starts with and
\* whatever the skip set.
C1_OperatorNeverSkipped ==
  (SkipApplied /\ ContainsOperator(probe.command)) => probe.result = FALSE

\* C1 witness: "ls |" starts with the skip-listed token ls, holds a pipe and
\* is not skipped.
C1_Witness ==
  /\ SkipApplied
  /\ probe.command = <<"l", "s", " ", "|">>
  /\ <<"l", "s">> \in probe.skip_set
  /\ probe.result = FALSE

\* C8: should_skip_command is true exactly when the trimmed command holds no
\* operator and equals a skip token or starts with one followed by a space
\* or a tab; so a first word that merely begins with a token, and the empty
\* or blank command, are not skipped, and appending any operator to a
\* skipped command makes the result false.
C8_SkipExactly ==
  SkipApplied =>
    LET text == Trimmed(probe.command)
    IN  /\ probe.result = TRUE <=>
             /\ ~ContainsOperator(text)
             /\ \E t \in probe.skip_set : TokenWithBoundary(text, t)
        /\ (text = <<>>) => probe.result = FALSE
        /\ MerelyBeginsWithToken(text, probe.skip_set) => probe.result = FALSE
        /\ probe.result = TRUE =>
             \A op \in DANGEROUS_SHELL_OPERATORS :
               ~should_skip_command(probe.command \o op, probe.skip_set)

\* C8 witness: "lso" begins with the token ls without a boundary and is not
\* skipped.
C8_Witness ==
  /\ SkipApplied
  /\ probe.command = <<"l", "s", "o">>
  /\ probe.skip_set = {<<"l", "s">>}
  /\ probe.result = FALSE

----------------------------------------------------------------------------
(* The commands submitted to the hook                                       *)

CmdGitRm == <<"g", "i", "t", " ", "r", "m", " ", "f">>   \* git rm f
CmdForcePush == <<"g", "i", "t", " ", "p", "u", "s", "h", " ", "-", "-", "f", "o", "r", "c", "e">>   \* git push --force
CmdForcePushUpper == <<"G", "I", "T", " ", "P", "U", "S", "H", " ", "-", "-", "F", "O", "R", "C", "E">>   \* GIT PUSH --FORCE
CmdRmRf == <<"r", "m", " ", "-", "r", "f", " ", "b">>   \* rm -rf b
CmdGitRmThenPush == <<"g", "i", "t", " ", "r", "m", " ", "f", ";", " ", "g", "i", "t", " ", "p", "u", "s", "h", " ", "-", "-", "f", "o", "r", "c", "e">>   \* git rm f; git push --force
CmdNpmTest == <<"n", "p", "m", " ", "t", "e", "s", "t">>   \* npm test
CmdEmpty == <<>>   \* the empty command
CmdLs == <<"l", "s", " ", "-", "l", "a">>   \* ls -la
CmdShScript == <<"s", "h", " ", "x", ".", "s", "h">>   \* sh x.sh
CmdEchoWrite == <<"e", "c", "h", "o", " ", "h", "i", " ", ">", " ", "f">>   \* echo hi > f

\* the commands of SpecWorkflow
WorkflowCommands ==
  {CmdGitRm, CmdForcePush, CmdForcePushUpper, CmdRmRf, CmdGitRmThenPush,
   CmdNpmTest}

\* the commands of the hook specifications
Commands ==
  {CmdEmpty, CmdLs, CmdShScript, CmdEchoWrite,
   CmdGitRm, CmdForcePush, CmdRmRf, CmdNpmTest}

----------------------------------------------------------------------------
(* Workflow pattern detector                                                *)

WORKFLOW_PATTERNS ==
  <<
    [pattern_name |-> "REPO_WIPE",
     required_cmds |-> <<<<"g", "i", "t", " ", "r", "m">>,
                        <<"g", "i", "t", " ", "p", "u", "s", "h", " ", "-", "-", "f", "o", "r", "c", "e">>>>,
     risk_level |-> "CRITICAL",
     description |->
       "Repository wipe: removing files from git and force pushing rewrites history permanently"],
    [pattern_name |-> "REPO_WIPE",
     required_cmds |-> <<<<"r", "m", " ", "-", "r", "f">>,
                        <<"g", "i", "t", " ", "a", "d", "d">>,
                        <<"g", "i", "t", " ", "p", "u", "s", "h", " ", "-", "-", "f", "o", "r", "c", "e">>>>,
     risk_level |-> "CRITICAL",
     description |->
       "Repository restructure with force push: deleting files and force pushing can destroy code"],
    [pattern_name |-> "MASS_DELETE",
     required_cmds |-> <<<<"r", "m", " ", "-", "r", "f">>,
                        <<"r", "m", " ", "-", "r", "f">>,
                        <<"r", "m", " ", "-", "r", "f">>>>,
     risk_level |-> "HIGH",
     description |->
       "Multiple recursive deletions in sequence - high risk of unintended data loss"],
    [pattern_name |-> "HISTORY_REWRITE",
     required_cmds |-> <<<<"g", "i", "t", " ", "r", "e", "s", "e", "t", " ", "-", "-", "h", "a", "r", "d">>,
                        <<"g", "i", "t", " ", "p", "u", "s", "h", " ", "-", "-", "f", "o", "r", "c", "e">>>>,
     risk_level |-> "CRITICAL",
     description |->
       "History rewrite: hard reset + force push permanently destroys commit history"],
    [pattern_name |-> "HISTORY_REWRITE",
     required_cmds |-> <<<<"g", "i", "t", " ", "r", "e", "b", "a", "s", "e">>,
                        <<"g", "i", "t", " ", "p", "u", "s", "h", " ", "-", "-", "f", "o", "r", "c", "e">>>>,
     risk_level |-> "CRITICAL",
     description |->
       "History rewrite: rebase + force push rewrites shared history"],
    [pattern_name |-> "UNCOMMITTED_RISK",
     required_cmds |-> <<<<"g", "i", "t", " ", "s", "t", "a", "s", "h">>,
                        <<"g", "i", "t", " ", "c", "h", "e", "c", "k", "o", "u", "t">>,
                        <<"r", "m">>>>,
     risk_level |-> "HIGH",
     description |->
       "Uncommitted changes at risk: stashing, switching branches, and deleting files"],
    [pattern_name |-> "TEMP_SWAP",
     required_cmds |-> <<<<"c", "p">>,
                        <<"r", "m", " ", "-", "r", "f">>,
                        <<"c", "p">>>>,
     risk_level |-> "HIGH",
     description |->
       "Temp directory swap pattern: copying to temp, deleting original, copying back - easy to lose data"],
    [pattern_name |-> "ENV_DESTRUCTION",
     required_cmds |-> <<<<"u", "n", "s", "e", "t">>,
                        <<"r", "m", " ", ".", "e", "n", "v">>>>,
     risk_level |-> "HIGH",
     description |->
       "Environment destruction: unsetting variables and deleting env files"]
  >>

window_size_default == 3

\* the last n elements of a list: list[-n:]
LastN(list, n) ==
  IF Len(list) <= n THEN list ELSE SubSeq(list, Len(list) - n + 1, Len(list))

\* faulty variant: no sliding window, the whole history is scanned
recent_commands_NoWindow(history, current_command, window_size) ==
  Append([i \in 1..Len(history.commands) |-> history.commands[i].command],
         current_command)

\* recent_commands: the last window_size history commands, then the current
recent_commands(history, current_command, window_size) ==
  LET all_history_commands ==
        [i \in 1..Len(history.commands) |-> history.commands[i].command]
  IN  Append(LastN(all_history_commands, window_size), current_command)

\* required.lower() in cmd.lower()
mentions(cmd, required) ==
  contains(lower(cmd), lower(required))

\* faulty variant: an entry may be used again for the next required substring
MatchingIndices_NotStrict(recent, required, last_idx) ==
  {idx \in 1..Len(recent) :
     idx >= last_idx /\ mentions(recent[idx], required)}

\* the indices the inner loop accepts for one required substring
MatchingIndices(recent, required, last_idx) ==
  {idx \in 1..Len(recent) :
     idx > last_idx /\ mentions(recent[idx], required)}

\* the loop over required_cmds from position k on: each takes the first
\* matching index after last_idx (break), or the pattern fails
RECURSIVE found_all(_, _, _, _)
found_all(recent, required_cmds, k, last_idx) ==
  IF k > Len(required_cmds) THEN TRUE
  ELSE LET matching == MatchingIndices(recent, required_cmds[k], last_idx)
       IN  IF matching = {} THEN FALSE
           ELSE found_all(recent, required_cmds, k + 1,
                          CHOOSE idx \in matching :
                            \A other \in matching : idx <= other)

\* the tuple (pattern_name, risk_level, description) appended to detected
DetectedTuple(pattern) ==
  PyTuple(<<pattern.pattern_name, pattern.risk_level, pattern.description>>)

\* detect_workflow_patterns(history, current_command, window_size)
detect_workflow_patterns_w(history, current_command, window_size) ==
  LET recent == recent_commands(history, current_command, window_size)
      fired(pattern) == found_all(recent, pattern.required_cmds, 1, 0)
      hits == SelectSeq(WORKFLOW_PATTERNS, fired)
  IN  [i \in 1..Len(hits) |-> DetectedTuple(hits[i])]

\* detect_workflow_patterns(history, current_command) with window_size = 3
detect_workflow_patterns(history, current_command) ==
  detect_workflow_patterns_w(history, current_command, window_size_default)

\* default_history of load_command_history
default_history ==
  [commands |-> <<>>,
   cumulative_risk |-> "LOW",
   patterns_detected |-> <<>>,
   files_at_risk |-> <<>>]

----------------------------------------------------------------------------
(* Specification SpecWorkflow: detect_workflow_patterns applied to every   *)
(* short history over commands that hold the required substrings in        *)
(* order, reversed, in upper case and inside one single entry.             *)

MaxWorkflowHistory == 4

RECURSIVE ListsUpTo(_, _)
ListsUpTo(elements, n) ==
  IF n = 0 THEN {<<>>}
  ELSE LET shorter == ListsUpTo(elements, n - 1)
       IN  shorter \cup {Append(l, e) : l \in shorter, e \in elements}

HistoryOfCommands(commands) ==
  [default_history EXCEPT
     !.commands = [i \in 1..Len(commands) |->
                     [command |-> commands[i], risk |-> "MODERATE"]]]

WorkflowInit ==
  /\ HookAbsent
  /\ probe \in [kind : {"workflow"},
             history : {HistoryOfCommands(l) :
                          l \in ListsUpTo(WorkflowCommands, MaxWorkflowHistory)},
             current_command : WorkflowCommands,
             state : {"input"},
             result : {<<>>}]

ApplyDetect ==
  /\ probe.kind = "workflow"
  /\ probe.state = "input"
  /\ probe' = [probe EXCEPT !.state = "applied",
                 !.result = detect_workflow_patterns(probe.history,
                                                     probe.current_command)]
  /\ UNCHANGED hookVars

WorkflowNext == ApplyDetect

SpecWorkflow == WorkflowInit /\ [][WorkflowNext]_vars

WorkflowApplied == probe.kind = "workflow" /\ probe.state = "applied"

\* the working sequence: the last three history commands, oldest first,
\* followed by the current command
WorkingSequence(history, current_command) ==
  LET n == Len(history.commands)
      from == IF n > 3 THEN n - 2 ELSE 1
  IN  [i \in 1..(n - from + 2) |->
         IF i <= n - from + 1 THEN history.commands[from + i - 1].command
         ELSE current_command]

\* some strictly increasing indices i1 < ... < ik into the sequence put the
\* j-th required substring inside the entry at ij, letter case ignored
HasIncreasingAssignment(required_cmds, sequence) ==
  \E idx \in [1..Len(required_cmds) -> 1..Len(sequence)] :
    /\ \A j \in 1..(Len(required_cmds) - 1) : idx[j] < idx[j + 1]
    /\ \A j \in 1..Len(required_cmds) :
         contains(lower(sequence[idx[j]]), lower(required_cmds[j]))

PatternsWithAssignment(sequence) ==
  LET assigned(pattern) ==
        HasIncreasingAssignment(pattern.required_cmds, sequence)
      hits == SelectSeq(WORKFLOW_PATTERNS, assigned)
  IN  [i \in 1..Len(hits) |-> DetectedTuple(hits[i])]

RepoWipeTuple == DetectedTuple(WORKFLOW_PATTERNS[1])

InResult(tuple) == \E i \in 1..Len(probe.result) : probe.result[i] = tuple

\* C9: a pattern is reported exactly when strictly increasing indices into
\* the working sequence hold its required substrings in order (letter case
\* ignored); substrings only in reverse order or only inside one entry do
\* not fire, and git rm followed by git push --force fires REPO_WIPE
\* with risk CRITICAL.
C9_GreedyMatchesExactly ==
  WorkflowApplied =>
    LET sequence == WorkingSequence(probe.history, probe.current_command)
    IN  /\ probe.result = PatternsWithAssignment(sequence)
        /\ sequence = <<CmdForcePush, CmdGitRm>> => probe.result = <<>>
        /\ sequence = <<CmdGitRmThenPush>> => probe.result = <<>>
        /\ sequence = <<CmdGitRm, CmdForcePush>> =>
             /\ InResult(RepoWipeTuple)
             /\ RepoWipeTuple.v[1] = "REPO_WIPE"
             /\ RepoWipeTuple.v[2] = "CRITICAL"

\* C9 witness: git rm f in the history and git push --force as the
\* current command report REPO_WIPE.
C9_Witness ==
  /\ WorkflowApplied
  /\ probe.history = HistoryOfCommands(<<CmdGitRm>>)
  /\ probe.current_command = CmdForcePush
  /\ InResult(RepoWipeTuple)

ReplaceCommand(history, i, command) ==
  [history EXCEPT !.commands[i].command = command]

\* C10: the patterns detected depend only on the last three history
\* commands and the current command: replacing any older history command
\* by any other command leaves the result unchanged, and a pattern whose
\* earlier step lies further back does not fire.
C10_WindowBound ==
  WorkflowApplied =>
    LET n == Len(probe.history.commands)
    IN  /\ \A i \in 1..(n - 3) : \A other \in WorkflowCommands :
             detect_workflow_patterns(
               ReplaceCommand(probe.history, i, other),
               probe.current_command) = probe.result
        /\ (/\ n = 4
            /\ probe.history.commands[1].command = CmdGitRm
            /\ \A i \in 2..4 : probe.history.commands[i].command = CmdNpmTest
            /\ probe.current_command = CmdForcePush)
             => probe.result = <<>>

\* C10 witness: git rm f lies four commands back, git push --force is
\* the current command and nothing is reported.
C10_Witness ==
  /\ WorkflowApplied
  /\ probe.history =
       HistoryOfCommands(<<CmdGitRm, CmdNpmTest, CmdNpmTest, CmdNpmTest>>)
  /\ probe.current_command = CmdForcePush
  /\ probe.result = <<>>

----------------------------------------------------------------------------
(* Fallback pattern layer                                                   *)

SAFE_PREFIXES ==
  <<
    <<"l", "s">>,
    <<"p", "w", "d">>,
    <<"e", "c", "h", "o">>,
    <<"c", "a", "t">>,
    <<"h", "e", "a", "d">>,
    <<"t", "a", "i", "l">>,
    <<"w", "c">>,
    <<"w", "h", "i", "c", "h">>,
    <<"w", "h", "o", "a", "m", "i">>,
    <<"d", "a", "t", "e">>,
    <<"c", "a", "l">>,
    <<"u", "p", "t", "i", "m", "e">>,
    <<"h", "o", "s", "t", "n", "a", "m", "e">>,
    <<"u", "n", "a", "m", "e">>,
    <<"e", "n", "v">>,
    <<"p", "r", "i", "n", "t", "e", "n", "v">>,
    <<"c", "d">>,
    <<"p", "u", "s", "h", "d">>,
    <<"p", "o", "p", "d">>,
    <<"d", "i", "r", "s">>,
    <<"g", "i", "t", " ", "s", "t", "a", "t", "u", "s">>,
    <<"g", "i", "t", " ", "l", "o", "g">>,
    <<"g", "i", "t", " ", "d", "i", "f", "f">>,
    <<"g", "i", "t", " ", "b", "r", "a", "n", "c", "h">>,
    <<"g", "i", "t", " ", "s", "h", "o", "w">>,
    <<"n", "p", "m", " ", "l", "i", "s", "t">>,
    <<"n", "p", "m", " ", "o", "u", "t", "d", "a", "t", "e", "d">>,
    <<"n", "p", "m", " ", "-", "-", "v", "e", "r", "s", "i", "o", "n">>,
    <<"n", "o", "d", "e", " ", "-", "-", "v", "e", "r", "s", "i", "o", "n">>,
    <<"p", "y", "t", "h", "o", "n", " ", "-", "-", "v", "e", "r", "s", "i", "o", "n">>,
    <<"p", "y", "t", "h", "o", "n", "3", " ", "-", "-", "v", "e", "r", "s", "i", "o", "n">>,
    <<"p", "i", "p", " ", "l", "i", "s", "t">>,
    <<"p", "i", "p", " ", "s", "h", "o", "w">>,
    <<"p", "g", "r", "e", "p">>,
    <<"p", "s", " ", "a", "u", "x">>,
    <<"t", "o", "p", " ", "-", "l">>,
    <<"h", "t", "o", "p">>
  >>

DANGEROUS_PATTERNS ==
  <<
    <<"r", "m", " ", "-", "r", "f">>,
    <<"r", "m", " ", "-", "r">>,
    <<"r", "m", "d", "i", "r">>,
    <<"s", "u", "d", "o">>,
    <<"s", "u", " ">>,
    <<">", " ", "/", "d", "e", "v", "/">>,
    <<"d", "d", " ", "i", "f", "=">>,
    <<"c", "h", "m", "o", "d", " ", "7", "7", "7">>,
    <<"c", "h", "m", "o", "d", " ", "-", "R">>,
    <<"m", "k", "f", "s">>,
    <<"f", "d", "i", "s", "k">>,
    <<"p", "a", "r", "t", "e", "d">>,
    <<":", "(", ")", "{", " ", ":", "|", ":", "&", " ", "}", ";", ":">>,
    <<"c", "u", "r", "l", " ", "|", " ", "s", "h">>,
    <<"c", "u", "r", "l", " ", "|", " ", "b", "a", "s", "h">>,
    <<"w", "g", "e", "t", " ", "|", " ", "s", "h">>,
    <<"w", "g", "e", "t", " ", "|", " ", "b", "a", "s", "h">>,
    <<"D", "R", "O", "P", " ">>,
    <<"D", "E", "L", "E", "T", "E", " ", "F", "R", "O", "M">>,
    <<"T", "R", "U", "N", "C", "A", "T", "E">>,
    <<"k", "u", "b", "e", "c", "t", "l", " ", "d", "e", "l", "e", "t", "e">>,
    <<"k", "u", "b", "e", "c", "t", "l", " ", "e", "x", "e", "c">>,
    <<"d", "o", "c", "k", "e", "r", " ", "r", "m">>,
    <<"d", "o", "c", "k", "e", "r", " ", "r", "m", "i">>,
    <<"d", "o", "c", "k", "e", "r", " ", "s", "y", "s", "t", "e", "m", " ", "p", "r", "u", "n", "e">>,
    <<"a", "w", "s", " ", "s", "3", " ", "r", "m">>,
    <<"a", "w", "s", " ", "e", "c", "2", " ", "t", "e", "r", "m", "i", "n", "a", "t", "e">>,
    <<"t", "e", "r", "r", "a", "f", "o", "r", "m", " ", "d", "e", "s", "t", "r", "o", "y">>,
    <<"s", "y", "s", "t", "e", "m", "c", "t", "l", " ", "s", "t", "o", "p">>,
    <<"s", "y", "s", "t", "e", "m", "c", "t", "l", " ", "d", "i", "s", "a", "b", "l", "e">>,
    <<"k", "i", "l", "l", " ", "-", "9">>,
    <<"k", "i", "l", "l", "a", "l", "l">>,
    <<"p", "k", "i", "l", "l">>
  >>

\* faulty variant: the command is not trimmed
is_safe_command_Untrimmed(command) ==
  \E i \in 1..Len(SAFE_PREFIXES) :
    startswith(lower(command), lower(SAFE_PREFIXES[i]))

\* is_safe_command(command)
is_safe_command(command) ==
  LET cmd_lower == lower(strip(command))
  IN  \E i \in 1..Len(SAFE_PREFIXES) :
        startswith(cmd_lower, lower(SAFE_PREFIXES[i]))

\* is_dangerous_command(command)
is_dangerous_command(command) ==
  LET cmd_lower == lower(command)
  IN  \E i \in 1..Len(DANGEROUS_PATTERNS) :
        contains(cmd_lower, lower(DANGEROUS_PATTERNS[i]))

\* the inline fallback of main when call_classifier returned nothing
pattern_fallback(command) ==
  IF is_safe_command(command)
    THEN [risk |-> "SAFE", reason |-> "Known safe command pattern",
          source |-> "pattern"]
  ELSE IF is_dangerous_command(command)
    THEN [risk |-> "DANGEROUS", reason |-> "Known dangerous command pattern",
          source |-> "pattern"]
  ELSE NoValue

\* main: the classifier's answer, and the inline fallback when there is none
classifier_or_fallback(command, classifier_call) ==
  IF classifier_call = NoValue
    THEN pattern_fallback(command)
    ELSE classifier_call

----------------------------------------------------------------------------
(* Session history and cumulative risk                                      *)

RISK_LEVELS ==
  [r \in {"LOW", "MODERATE", "HIGH", "CRITICAL"} |->
     CASE r = "LOW" -> 0 [] r = "MODERATE" -> 1 [] r = "HIGH" -> 2
       [] r = "CRITICAL" -> 3]

\* RISK_NAMES.get(level, "MODERATE")
RISK_NAMES(level) ==
  IF \E r \in DOMAIN RISK_LEVELS : RISK_LEVELS[r] = level
    THEN CHOOSE r \in DOMAIN RISK_LEVELS : RISK_LEVELS[r] = level
    ELSE "MODERATE"

\* RISK_LEVELS.get(risk, default)
risk_level_get(risk, default) ==
  IF risk \in DOMAIN RISK_LEVELS THEN RISK_LEVELS[risk] ELSE default

Max2(a, b) == IF a >= b THEN a ELSE b
Min2(a, b) == IF a <= b THEN a ELSE b

\* max(start, max of the values)
MaxOfSet(values, start) ==
  CHOOSE m \in values \cup {start} : \A x \in values \cup {start} : m >= x

MaxHistoryCommands == 50
DangerousForCritical == 5
DangerousForHigh == 3

\* faulty variant: the floors apply above 5 and above 3 DANGEROUS commands
calculate_cumulative_risk_Above(history, current_risk) ==
  LET dangerous_count ==
        Cardinality({i \in 1..Len(history.commands) :
                       history.commands[i].risk = "DANGEROUS"})
      from_commands ==
        MaxOfSet({risk_level_get(history.commands[i].risk, 1) :
                    i \in 1..Len(history.commands)},
                 risk_level_get(current_risk, 1))
      from_count ==
        IF dangerous_count > DangerousForCritical
          THEN Max2(from_commands, RISK_LEVELS["CRITICAL"])
        ELSE IF dangerous_count > DangerousForHigh
          THEN Max2(from_commands, RISK_LEVELS["HIGH"])
        ELSE from_commands
      max_risk ==
        MaxOfSet({risk_level_get(history.patterns_detected[i].v[2], 2) :
                    i \in 1..Len(history.patterns_detected)},
                 from_count)
  IN  RISK_NAMES(max_risk)

\* calculate_cumulative_risk(history, current_risk)
calculate_cumulative_risk(history, current_risk) ==
  LET dangerous_count ==
        Cardinality({i \in 1..Len(history.commands) :
                       history.commands[i].risk = "DANGEROUS"})
      from_commands ==
        MaxOfSet({risk_level_get(history.commands[i].risk, 1) :
                    i \in 1..Len(history.commands)},
                 risk_level_get(current_risk, 1))
      from_count ==
        IF dangerous_count >= DangerousForCritical
          THEN Max2(from_commands, RISK_LEVELS["CRITICAL"])
        ELSE IF dangerous_count >= DangerousForHigh
          THEN Max2(from_commands, RISK_LEVELS["HIGH"])
        ELSE from_commands
      max_risk ==
        MaxOfSet({risk_level_get(history.patterns_detected[i].v[2], 2) :
                    i \in 1..Len(history.patterns_detected)},
                 from_count)
  IN  RISK_NAMES(max_risk)

\* command[:n]
Truncate(text, n) == IF Len(text) <= n THEN text ELSE SubSeq(text, 1, n)

\* json.load(json.dump(history)): the tuples of patterns_detected come back
\* as lists
json_round_trip(history) ==
  [history EXCEPT
     !.patterns_detected =
        [i \in 1..Len(history.patterns_detected) |->
           PyList(history.patterns_detected[i].v)]]

\* for item in items: if item not in list: list.append(item)
RECURSIVE append_missing(_, _)
append_missing(list, items) ==
  IF items = <<>> THEN list
  ELSE append_missing(
         IF \E i \in 1..Len(list) : list[i] = Head(items)
           THEN list ELSE Append(list, Head(items)),
         Tail(items))

----------------------------------------------------------------------------
(* The commands of the hook model, and the functions of the command text   *)
(* that are regular expressions or digests in the source, tabulated by     *)
(* running the source on these commands.                                    *)

\* hashlib.md5(command.encode()).hexdigest()
md5_hexdigest(command) ==
    CASE command = CmdEmpty -> 
           <<"d","4","1","d","8","c","d","9","8","f","0","0","b","2","0","4","e","9","8","0","0","9","9","8","e","c","f","8","4","2","7","e">>
      [] command = CmdLs -> 
           <<"a","2","d","a","9","3","1","7","2","6","2","5","f","6","e","3","6","3","3","d","b","a","3","d","1","5","e","4","4","3","3","4">>
      [] command = CmdShScript -> 
           <<"2","8","b","2","6","b","4","e","b","1","8","c","5","a","c","d","5","f","9","3","8","b","b","f","1","b","8","7","f","1","8","1">>
      [] command = CmdEchoWrite -> 
           <<"3","f","e","b","d","4","f","f","0","4","c","c","7","e","4","0","c","1","2","c","4","b","8","d","2","d","c","8","b","7","7","c">>
      [] command = CmdGitRm -> 
           <<"1","7","c","a","8","b","0","9","a","6","4","e","8","5","3","3","8","7","e","5","1","f","8","0","d","b","8","8","a","f","f","6">>
      [] command = CmdForcePush -> 
           <<"b","4","d","d","5","9","5","6","7","f","7","6","3","7","1","1","d","0","b","3","4","1","7","3","5","f","9","1","0","f","3","b">>
      [] command = CmdRmRf -> 
           <<"1","f","0","6","9","a","b","f","7","0","5","5","9","7","2","0","4","b","6","3","b","0","c","c","2","a","b","f","f","9","2","7">>
      [] command = CmdNpmTest -> 
           <<"3","3","f","4","5","8","2","0","6","f","1","9","b","d","3","2","0","9","b","c","c","4","5","8","0","5","1","5","2","d","d","e">>

\* extract_affected_paths(command)
extract_affected_paths(command) ==
    CASE command = CmdEmpty -> <<>>
      [] command = CmdLs -> <<>>
      [] command = CmdShScript -> <<>>
      [] command = CmdEchoWrite -> <<>>
      [] command = CmdGitRm -> <<"f", "f">>
      [] command = CmdForcePush -> <<>>
      [] command = CmdRmRf -> <<"b">>
      [] command = CmdNpmTest -> <<>>

\* the script path matched by the patterns of extract_script_content
script_path_match(command) ==
    CASE command = CmdEmpty -> NoValue
      [] command = CmdLs -> NoValue
      [] command = CmdShScript -> PyStr("x.sh")
      [] command = CmdEchoWrite -> NoValue
      [] command = CmdGitRm -> NoValue
      [] command = CmdForcePush -> NoValue
      [] command = CmdRmRf -> NoValue
      [] command = CmdNpmTest -> NoValue

\* extract_inline_content(command)
extract_inline_content(command) ==
    CASE command = CmdEmpty -> NoValue
      [] command = CmdLs -> NoValue
      [] command = CmdShScript -> NoValue
      [] command = CmdEchoWrite -> PyStr("hi")
      [] command = CmdGitRm -> NoValue
      [] command = CmdForcePush -> NoValue
      [] command = CmdRmRf -> NoValue
      [] command = CmdNpmTest -> NoValue

\* the branch get_destruction_consequences dispatches to
destruction_type(command) ==
    CASE command = CmdEmpty -> NoValue
      [] command = CmdLs -> NoValue
      [] command = CmdShScript -> NoValue
      [] command = CmdEchoWrite -> NoValue
      [] command = CmdGitRm -> PyStr("rm")
      [] command = CmdForcePush -> NoValue
      [] command = CmdRmRf -> PyStr("rm")
      [] command = CmdNpmTest -> NoValue

\* the targets split from the rm pattern's group
rm_targets(command) ==
    CASE command = CmdEmpty -> <<>>
      [] command = CmdLs -> <<>>
      [] command = CmdShScript -> <<>>
      [] command = CmdEchoWrite -> <<>>
      [] command = CmdGitRm -> << <<"f">> >>
      [] command = CmdForcePush -> <<>>
      [] command = CmdRmRf -> << <<"b">> >>
      [] command = CmdNpmTest -> <<>>

----------------------------------------------------------------------------
(* Persisted state: the files under ~/.claude and the backup directory      *)

Sessions == {"A", "B"}

\* faulty variant: one state file for every session
get_state_file_Shared(session_id) == <<"deliberate_cmd_state_", "A">>

\* get_state_file(session_id)
get_state_file(session_id) == <<"deliberate_cmd_state_", session_id>>

\* faulty variant: every session uses the history file of session A
get_history_file_Shared(session_id) == <<"deliberate_cmd_history_", "A">>

\* get_history_file(session_id)
get_history_file(session_id) == <<"deliberate_cmd_history_", session_id>>

\* get_cache_file(session_id, cmd_hash)
get_cache_file(session_id, cmd_hash) ==
  <<"deliberate_cmd_cache_", session_id, cmd_hash>>

\* get_warning_key(command): "cmd-" and the first 12 digits of the digest
get_warning_key(command) ==
  <<"c", "m", "d", "-">> \o SubSeq(md5_hexdigest(command), 1, 12)

\* cmd_hash of main: the first 16 digits of the digest
cmd_hash_of(command) == SubSeq(md5_hexdigest(command), 1, 16)

FileNames ==
  {get_state_file(s) : s \in Sessions}
    \cup {get_history_file(s) : s \in Sessions}
    \cup {get_cache_file(s, cmd_hash_of(c)) : s \in Sessions, c \in Commands}

\* a file that exists holds a JSON document
FileOf(document) == [json |-> document]

\* open(name, 'w') and json.dump: the file is replaced and its mtime is now
write_file(fs, name, document) == [fs EXCEPT ![name] = FileOf(document)]

\* open(name, 'w') alone: the file is created or truncated to no bytes
EmptyFile == [bytes |-> 0, head |-> NoValue]

open_w(fs, name) == [fs EXCEPT ![name] = EmptyFile]

\* the length of the text json.dump makes of a history: the commands, and
\* one unit per record, detected pattern and path at risk
RECURSIVE commands_size(_)
commands_size(commands) ==
  IF commands = <<>> THEN 0
  ELSE 1 + Len(Head(commands).command) + commands_size(Tail(commands))

history_size(history) ==
  2 + commands_size(history.commands) + Len(history.patterns_detected)
    + Len(history.files_at_risk)

\* the length of the text json.dump makes of the list of shown warnings
state_size(shown_warnings) == 2 + 20 * Cardinality(shown_warnings)

\* the length of the text written to the file of that name
text_size(name, document) ==
  IF name[1] = "deliberate_cmd_state_" THEN state_size(document)
  ELSE history_size(document)

\* the number of bytes of the file of that name
file_size(fs, name) ==
  IF fs[name] = NoValue THEN 0
  ELSE IF "json" \in DOMAIN fs[name] THEN text_size(name, fs[name].json)
  ELSE fs[name].bytes

\* json.dump and close on a descriptor opened before: the text goes to
\* offset 0 in one write and the file is not truncated again, so the bytes
\* another writer left beyond the end of the text stay behind it
write_at_start(fs, name, document) ==
  [fs EXCEPT ![name] =
     IF file_size(fs, name) <= text_size(name, document)
       THEN FileOf(document)
       ELSE [bytes |-> file_size(fs, name), head |-> document]]

\* json.load succeeds: the file exists and holds the text of one document
readable(file) == "json" \in DOMAIN file

\* load_state(session_id)
load_state(fs, session_id) ==
  IF ~readable(fs[get_state_file(session_id)])
    THEN {}
    ELSE fs[get_state_file(session_id)].json

\* load_command_history(session_id)
load_command_history(fs, session_id) ==
  IF ~readable(fs[get_history_file(session_id)])
    THEN default_history
    ELSE fs[get_history_file(session_id)].json

\* if len(history["files_at_risk"]) > 100: keep [-100:]
MaxFilesAtRisk == 100

\* faulty variant: a full list keeps its first 100 paths
track_files_at_risk_KeepOldest(files_at_risk, affected_paths) ==
  LET paths == append_missing(files_at_risk, affected_paths)
  IN  IF Len(paths) > MaxFilesAtRisk
        THEN SubSeq(paths, 1, MaxFilesAtRisk)
        ELSE paths

\* add_command_to_history, "Track files at risk": the affected paths that
\* are not in the list are appended, then the list is cut to its last 100
track_files_at_risk(files_at_risk, affected_paths) ==
  LET paths == append_missing(files_at_risk, affected_paths)
  IN  IF Len(paths) > MaxFilesAtRisk
        THEN LastN(paths, MaxFilesAtRisk)
        ELSE paths

\* faulty variant: a full history keeps its first 50 records and drops the
\* new one
updated_history_KeepOldest(history, command, risk) ==
  LET appended == Append(history.commands,
                         [command |-> Truncate(command, 500), risk |-> risk])
      commands == IF Len(appended) > MaxHistoryCommands
                    THEN SubSeq(appended, 1, MaxHistoryCommands)
                    ELSE appended
      h1 == [history EXCEPT !.commands = commands]
      patterns == detect_workflow_patterns(h1, command)
      h2 == [h1 EXCEPT !.patterns_detected =
                         append_missing(h1.patterns_detected, patterns)]
      h3 == [h2 EXCEPT !.cumulative_risk = calculate_cumulative_risk(h2, risk)]
  IN  [h3 EXCEPT !.files_at_risk =
                   track_files_at_risk(h3.files_at_risk,
                                       extract_affected_paths(command))]

\* the body of add_command_to_history between its load and its save
updated_history(history, command, risk) ==
  LET appended == Append(history.commands,
                         [command |-> Truncate(command, 500), risk |-> risk])
      commands == IF Len(appended) > MaxHistoryCommands
                    THEN LastN(appended, MaxHistoryCommands)
                    ELSE appended
      h1 == [history EXCEPT !.commands = commands]
      patterns == detect_workflow_patterns(h1, command)
      h2 == [h1 EXCEPT !.patterns_detected =
                         append_missing(h1.patterns_detected, patterns)]
      h3 == [h2 EXCEPT !.cumulative_risk = calculate_cumulative_risk(h2, risk)]
  IN  [h3 EXCEPT !.files_at_risk =
                   track_files_at_risk(h3.files_at_risk,
                                       extract_affected_paths(command))]

----------------------------------------------------------------------------
(* External collaborators: what they may answer                             *)

\* call_classifier: nothing (service down, timeout, malformed) or a result
ClassifierResult(risk, source) ==
  [risk |-> risk, reason |-> "classifier reason", source |-> source]

ClassifierAnswers ==
  {NoValue}
    \cup {ClassifierResult(risk, "classifier") :
            risk \in {"SAFE", "MODERATE", "DANGEROUS"}}
    \cup {ClassifierResult("DANGEROUS", "fallback")}

\* call_llm_for_explanation: nothing or {risk, explanation}
LLMResult(risk) == [risk |-> risk, explanation |-> "llm explanation"]

LLMAnswers ==
  {NoValue} \cup {LLMResult(risk) : risk \in {"SAFE", "MODERATE", "DANGEROUS"}}

\* what a target of rm is on disk
TargetKinds == {"absent", "file", "dir"}

\* _analyze_path on every target (a path is the tuple of its components): a
\* file is listed; a directory is listed with the file x it holds
analyze_targets(targets, kind) ==
  [files |-> IF kind = "file" THEN targets
             ELSE IF kind = "dir"
               THEN [i \in 1..Len(targets) |-> Append(targets[i], "x")]
             ELSE <<>>,
   dirs |-> IF kind = "dir" THEN targets ELSE <<>>,
   type |-> "rm"]

\* get_destruction_consequences(command, cwd), rm branch
get_destruction_consequences(command, kind) ==
  IF destruction_type(command) = NoValue \/ rm_targets(command) = <<>>
    THEN NoValue
    ELSE LET consequences == analyze_targets(rm_targets(command), kind)
         IN  IF consequences.files # <<>> \/ consequences.dirs # <<>>
               THEN consequences
               ELSE NoValue

\* load_skip_commands()
load_skip_commands(cfg) ==
  (DEFAULT_SKIP_COMMANDS \cup cfg.skip_additional) \ cfg.skip_remove

----------------------------------------------------------------------------
(* The decision of main                                                     *)

\* faulty variant: a script body is required even when both sources agree
should_block_ScriptOnly(risk, is_inline_write, classifier_result, llm_result, script_content) ==
  /\ risk = "DANGEROUS"
  /\ ~is_inline_write
  /\ script_content # NoValue
  /\ llm_result # NoValue
  /\ llm_result.risk = "DANGEROUS"

\* faulty variant: one dangerous source is enough
should_block_EitherSource(risk, is_inline_write, classifier_result, llm_result, script_content) ==
  /\ risk = "DANGEROUS"
  /\ ~is_inline_write
  /\ \/ classifier_result # NoValue /\ classifier_result.risk = "DANGEROUS"
     \/ llm_result # NoValue /\ llm_result.risk = "DANGEROUS"

\* the auto-block condition of main
should_block(risk, is_inline_write, classifier_result, llm_result, script_content) ==
  /\ risk = "DANGEROUS"
  /\ ~is_inline_write
  /\ LET classifier_dangerous ==
           classifier_result # NoValue /\ classifier_result.risk = "DANGEROUS"
         llm_dangerous ==
           llm_result # NoValue /\ llm_result.risk = "DANGEROUS"
         both_agree == classifier_dangerous /\ llm_dangerous
         script_analyzed == script_content # NoValue /\ llm_dangerous
     IN  both_agree \/ script_analyzed

\* should_backup of main
should_backup(destruction_consequences) ==
  /\ destruction_consequences # NoValue
  /\ \/ destruction_consequences.files # <<>>
     \/ destruction_consequences.dirs # <<>>

----------------------------------------------------------------------------
(* One invocation of the hook: main                                         *)

IdleProc ==
  [pc |-> "idle",
   session_id |-> "",
   command |-> <<>>,
   classifier_call |-> NoValue,
   classifier_result |-> NoValue,
   llm_result |-> NoValue,
   script_content |-> NoValue,
   is_inline_write |-> FALSE,
   destruction_consequences |-> NoValue,
   workflow_patterns |-> <<>>,
   risk |-> "",
   explanation |-> "",
   shown_before |-> FALSE,
   backup_path |-> NoValue,
   history |-> NoValue,
   shown_warnings |-> NoValue,
   cwd |-> <<>>,
   now |-> 0,
   uncopyable |-> {},
   outcome |-> "",
   exit_code |-> 0,
   output |-> "none",
   displayed |-> NoValue]

\* faulty variant: every exit has the status of an uncaught exception
Terminated_ExitOne(proc, outcome, exit_code, output) ==
  [proc EXCEPT !.pc = "done", !.outcome = outcome,
               !.exit_code = 1, !.output = output]

\* sys.exit(code) after printing nothing, the ASK document or the refusal
Terminated(proc, outcome, exit_code, output) ==
  [proc EXCEPT !.pc = "done", !.outcome = outcome,
               !.exit_code = exit_code, !.output = output]

\* cleanup_old_state_files: one time in ten, every deliberate_*.json file
\* whose mtime is older than seven days is removed
cleanup_old_state_files(fs, old, runs) ==
  IF runs THEN [name \in FileNames |->
                  IF name \in old THEN NoValue ELSE fs[name]]
          ELSE fs

\* faulty variant: the workflow patterns are looked for in the whole history
begin_WholeHistory(fs, cfg, session_id, command) ==
  LET begun == [IdleProc EXCEPT !.session_id = session_id,
                                !.command = command]
      history == load_command_history(fs, session_id)
  IN  IF command = CmdEmpty
        THEN Terminated(begun, "NO_COMMAND", 0, "none")
      ELSE IF should_skip_command(command, load_skip_commands(cfg))
        THEN Terminated(begun, "SKIPPED", 0, "none")
      ELSE [begun EXCEPT
              !.pc = "classify",
              !.workflow_patterns =
                 detect_workflow_patterns_w(history, command,
                                            Len(history.commands))]

\* main from the input record to the workflow detection: the empty
\* command, the skip check, the history load and detect_workflow_patterns
begin(fs, cfg, session_id, command) ==
  LET begun == [IdleProc EXCEPT !.session_id = session_id,
                                !.command = command]
      history == load_command_history(fs, session_id)
  IN  IF command = CmdEmpty
        THEN Terminated(begun, "NO_COMMAND", 0, "none")
      ELSE IF should_skip_command(command, load_skip_commands(cfg))
        THEN Terminated(begun, "SKIPPED", 0, "none")
      ELSE [begun EXCEPT
              !.pc = "classify",
              !.workflow_patterns = detect_workflow_patterns(history, command)]

\* main from the consequences to the choice of the risk: classifier,
\* fallback, script and inline content, LLM, progressive degradation and
\* fail-open
analyse(begun, classifier_call, llm_result, kind, script_readable) ==
  LET command == begun.command
      classifier_result == classifier_or_fallback(command, classifier_call)
      script_content ==
        IF script_path_match(command) # NoValue /\ script_readable
          THEN PyStr("script body")
          ELSE NoValue
      analysed ==
        [begun EXCEPT
           !.classifier_call = classifier_call,
           !.classifier_result = classifier_result,
           !.llm_result = llm_result,
           !.script_content = script_content,
           !.is_inline_write = (extract_inline_content(command) # NoValue),
           !.destruction_consequences =
              get_destruction_consequences(command, kind)]
  IN  IF llm_result = NoValue
        THEN IF /\ classifier_result # NoValue
                /\ classifier_result.source # "fallback"
               THEN [analysed EXCEPT
                       !.pc = "cache",
                       !.risk = classifier_result.risk,
                       !.explanation = classifier_result.reason]
               ELSE Terminated(analysed, "FAIL_OPEN", 0, "none")
      ELSE [analysed EXCEPT
              !.pc = "cache",
              !.risk = IF classifier_result # NoValue
                         THEN classifier_result.risk
                         ELSE llm_result.risk,
              !.explanation = llm_result.explanation]

\* save_to_cache(session_id, cmd_hash, {...})
cache_name(proc) == get_cache_file(proc.session_id, cmd_hash_of(proc.command))

save_to_cache(fs, proc) ==
  write_file(fs, cache_name(proc),
             [risk |-> proc.risk,
              explanation |-> proc.explanation,
              command |-> Truncate(proc.command, 200)])

\* faulty variant: the history is updated after the SAFE auto-allow exit
add_command_to_history_AfterSafeExit(fs, proc) ==
  IF proc.risk = "SAFE" THEN fs
  ELSE write_file(fs, get_history_file(proc.session_id),
                  json_round_trip(
                    updated_history(load_command_history(fs, proc.session_id),
                                    proc.command, proc.risk)))

\* add_command_to_history(session_id, command, risk, explanation)
add_command_to_history(fs, proc) ==
  write_file(fs, get_history_file(proc.session_id),
             json_round_trip(
               updated_history(load_command_history(fs, proc.session_id),
                               proc.command, proc.risk)))

\* the directory the commands are run in
ProjectDir == <<"x", "proj">>

\* os.path.basename(cwd) or "unknown"; a path is the tuple of its components
project_name(cwd) == IF cwd = <<>> THEN "unknown" ELSE cwd[Len(cwd)]

\* the directory create_pre_destruction_backup works in: the backup base,
\* the project name and datetime.now() to the second
backup_dir(cwd, now) == <<"backups", project_name(cwd), now>>

\* faulty variant: a SAFE command goes through the block and ASK branches
decide_SafeAsks(fs, cfg, proc) ==
  LET triggered == /\ cfg.backup_enabled
                   /\ should_backup(proc.destruction_consequences)
      backed == IF triggered
                  THEN [proc EXCEPT !.backup_path = backup_dir(proc.cwd, proc.now)]
                  ELSE proc
      warning_key == get_warning_key(proc.command)
      shown_warnings == load_state(fs, proc.session_id)
  IN  IF should_block(proc.risk, proc.is_inline_write,
                      proc.classifier_result, proc.llm_result,
                      proc.script_content)
        THEN Terminated(backed, "BLOCK", 2, "block")
      ELSE IF ~cfg.dedup_enabled
        THEN Terminated(backed, "ASK", 0, "ask")
      ELSE IF warning_key \in shown_warnings
        THEN Terminated([backed EXCEPT !.shown_before = TRUE],
                        "DEDUPLICATED", 0, "none")
      ELSE Terminated(backed, "ASK", 0, "ask")

\* faulty variant: the deduplication exit is taken before the backup
decide_DedupBeforeBackup(fs, cfg, proc) ==
  LET triggered == /\ cfg.backup_enabled
                   /\ should_backup(proc.destruction_consequences)
      backed == IF triggered
                  THEN [proc EXCEPT !.backup_path = backup_dir(proc.cwd, proc.now)]
                  ELSE proc
      warning_key == get_warning_key(proc.command)
      shown_warnings == load_state(fs, proc.session_id)
  IN  IF proc.risk = "SAFE" /\ proc.workflow_patterns = <<>>
        THEN Terminated(proc, "ALLOW_SILENT", 0, "none")
      ELSE IF should_block(proc.risk, proc.is_inline_write,
                           proc.classifier_result, proc.llm_result,
                           proc.script_content)
        THEN Terminated(backed, "BLOCK", 2, "block")
      ELSE IF ~cfg.dedup_enabled
        THEN Terminated(backed, "ASK", 0, "ask")
      ELSE IF warning_key \in shown_warnings
        THEN Terminated([proc EXCEPT !.shown_before = TRUE],
                        "DEDUPLICATED", 0, "none")
      ELSE Terminated(backed, "ASK", 0, "ask")

\* faulty variant: the deduplication exit is taken before the auto-block
decide_DedupBeforeBlock(fs, cfg, proc) ==
  LET triggered == /\ cfg.backup_enabled
                   /\ should_backup(proc.destruction_consequences)
      backed == IF triggered
                  THEN [proc EXCEPT !.backup_path = backup_dir(proc.cwd, proc.now)]
                  ELSE proc
      warning_key == get_warning_key(proc.command)
      shown_warnings == load_state(fs, proc.session_id)
  IN  IF proc.risk = "SAFE" /\ proc.workflow_patterns = <<>>
        THEN Terminated(proc, "ALLOW_SILENT", 0, "none")
      ELSE IF cfg.dedup_enabled /\ warning_key \in shown_warnings
        THEN Terminated([backed EXCEPT !.shown_before = TRUE],
                        "DEDUPLICATED", 0, "none")
      ELSE IF should_block(proc.risk, proc.is_inline_write,
                           proc.classifier_result, proc.llm_result,
                           proc.script_content)
        THEN Terminated(backed, "BLOCK", 2, "block")
      ELSE Terminated(backed, "ASK", 0, "ask")

\* main from the SAFE auto-allow to the end: backup trigger, auto-block,
\* deduplication and the ASK document; fs is read by load_state
decide(fs, cfg, proc) ==
  LET triggered == /\ cfg.backup_enabled
                   /\ should_backup(proc.destruction_consequences)
      backed == IF triggered
                  THEN [proc EXCEPT !.backup_path = backup_dir(proc.cwd, proc.now)]
                  ELSE proc
      warning_key == get_warning_key(proc.command)
      shown_warnings == load_state(fs, proc.session_id)
  IN  IF proc.risk = "SAFE" /\ proc.workflow_patterns = <<>>
        THEN Terminated(proc, "ALLOW_SILENT", 0, "none")
      ELSE IF should_block(proc.risk, proc.is_inline_write,
                           proc.classifier_result, proc.llm_result,
                           proc.script_content)
        THEN Terminated(backed, "BLOCK", 2, "block")
      ELSE IF ~cfg.dedup_enabled
        THEN Terminated(backed, "ASK", 0, "ask")
      ELSE IF warning_key \in shown_warnings
        THEN Terminated([backed EXCEPT !.shown_before = TRUE],
                        "DEDUPLICATED", 0, "none")
      ELSE Terminated(backed, "ASK", 0, "ask")

\* for filepath in consequences["files"][:100]
MaxBackupFiles == 100

\* faulty variant: every listed file is considered
backup_files_NoLimit(cwd, listed, uncopyable) ==
  LET Copies(path) == path \notin uncopyable
      done == SelectSeq(listed, Copies)
      file_mappings == [i \in 1..Len(done) |->
                          [backup |-> done[i], original |-> cwd \o done[i]]]
  IN  [copied |-> {file_mappings[i] : i \in 1..Len(file_mappings)},
       file_mappings |-> file_mappings]

\* faulty variant: the first file that cannot be copied ends the loop
backup_files_StopsAtFailure(cwd, listed, uncopyable) ==
  LET considered == SubSeq(listed, 1, Min2(Len(listed), MaxBackupFiles))
      failures == {i \in 1..Len(considered) : considered[i] \in uncopyable}
      done == IF failures = {} THEN considered
              ELSE SubSeq(considered, 1,
                          (CHOOSE i \in failures :
                             \A j \in failures : i <= j) - 1)
      file_mappings == [i \in 1..Len(done) |->
                          [backup |-> done[i], original |-> cwd \o done[i]]]
  IN  [copied |-> {file_mappings[i] : i \in 1..Len(file_mappings)},
       file_mappings |-> file_mappings]

\* the copy loop of create_pre_destruction_backup over the files listed in
\* the consequences: the first 100 are considered; a file that is gone or
\* whose copy raises is passed over; a file that was copied gets a mapping
\* from the path in the backup, relative to cwd, to the file it is a copy of
backup_files(cwd, listed, uncopyable) ==
  LET Copies(path) == path \notin uncopyable
      considered == SubSeq(listed, 1, Min2(Len(listed), MaxBackupFiles))
      done == SelectSeq(considered, Copies)
      file_mappings == [i \in 1..Len(done) |->
                          [backup |-> done[i], original |-> cwd \o done[i]]]
  IN  [copied |-> {file_mappings[i] : i \in 1..Len(file_mappings)},
       file_mappings |-> file_mappings]

\* the files one backup copies
copied_files(proc) ==
  backup_files(proc.cwd, proc.destruction_consequences.files,
               proc.uncopyable).copied

\* the backup create_pre_destruction_backup makes in a directory that did
\* not exist: metadata.json and the copies under files/
backup_record(proc) ==
  [dir |-> backup_dir(proc.cwd, proc.now),
   now |-> proc.now,
   session_id |-> proc.session_id,
   command |-> proc.command,
   cwd |-> proc.cwd,
   files |-> proc.destruction_consequences.files,
   file_mappings |->
     backup_files(proc.cwd, proc.destruction_consequences.files,
                  proc.uncopyable).file_mappings,
   copied |-> copied_files(proc)]

\* create_pre_destruction_backup on the backup directories dirs: makedirs
\* with exist_ok, so a directory made by an earlier backup is reused, its
\* metadata.json rewritten and the copies added to the ones it holds
create_pre_destruction_backup(dirs, proc) ==
  LET old == {b \in dirs : b.dir = backup_dir(proc.cwd, proc.now)}
      kept == {c \in UNION {b.copied : b \in old} :
                 \A n \in copied_files(proc) : n.backup # c.backup}
  IN  (dirs \ old)
        \cup {[backup_record(proc) EXCEPT
                 !.copied = kept \cup copied_files(proc)]}

\* save_state(session_id, shown_warnings) on the branch that surfaces ASK
save_state(fs, cfg, proc) ==
  IF proc.outcome = "ASK" /\ cfg.dedup_enabled
    THEN write_file(fs, get_state_file(proc.session_id),
                    load_state(fs, proc.session_id)
                      \cup {get_warning_key(proc.command)})
    ELSE fs

\* the files main has written on the way to this outcome
written_names(cfg, proc) ==
  IF proc.outcome \in {"NO_COMMAND", "SKIPPED", "FAIL_OPEN"} THEN {}
  ELSE {cache_name(proc), get_history_file(proc.session_id)}
         \cup (IF proc.outcome = "ASK" /\ cfg.dedup_enabled
                 THEN {get_state_file(proc.session_id)} ELSE {})

\* faulty variant: a skipped command is recorded in the history
main_RecordsSkipped(fs, cfg, begun, classifier_call, llm_result, kind, script_readable) ==
  LET analysed == IF begun.pc = "done" THEN begun
                  ELSE analyse(begun, classifier_call, llm_result, kind,
                               script_readable)
      cached == add_command_to_history(save_to_cache(fs, analysed), analysed)
      final == IF analysed.pc = "done" THEN analysed
               ELSE decide(cached, cfg, analysed)
  IN  [proc |-> final,
       files |-> IF analysed.outcome = "SKIPPED"
                   THEN add_command_to_history(fs, analysed)
                 ELSE IF analysed.pc = "done" THEN fs
                 ELSE save_state(cached, cfg, final)]

\* main once the skip check is passed: the process record at sys.exit and
\* the files it leaves in ~/.claude
main(fs, cfg, begun, classifier_call, llm_result, kind, script_readable) ==
  LET analysed == IF begun.pc = "done" THEN begun
                  ELSE analyse(begun, classifier_call, llm_result, kind,
                               script_readable)
      cached == add_command_to_history(save_to_cache(fs, analysed), analysed)
      final == IF analysed.pc = "done" THEN analysed
               ELSE decide(cached, cfg, analysed)
  IN  [proc |-> final,
       files |-> IF analysed.pc = "done" THEN fs
                 ELSE save_state(cached, cfg, final)]

\* one run of main, from reading the input record to sys.exit
Hook(p) ==
  /\ procs[p].pc = "idle"
  /\ started < inputs.max_invocations
  /\ started' = started + 1
  /\ \E session_id \in inputs.sessions, command \in inputs.commands,
        runs \in IF stale = {} THEN {FALSE} ELSE BOOLEAN :
       \E fs \in {cleanup_old_state_files(files, stale, runs)} :
       \E begun \in {begin(fs, config, session_id, command)} :
       \* (inputs that the path taken does not read are not drawn)
       \E classifier_call \in IF begun.pc = "done" THEN {NoValue}
                              ELSE inputs.classifier_answers[started + 1],
          llm_result \in IF begun.pc = "done" THEN {NoValue}
                         ELSE inputs.llm_answers,
          kind \in IF begun.pc = "done" \/ destruction_type(command) = NoValue
                     THEN {"absent"} ELSE TargetKinds,
          script_readable \in
            IF begun.pc = "done" \/ script_path_match(command) = NoValue
              THEN {FALSE} ELSE BOOLEAN :
       \E cwd \in IF kind = "absent" THEN {<<>>} ELSE inputs.cwds,
          now \in IF kind = "absent" THEN {0}
                  ELSE {t \in inputs.seconds : \A b \in backups : b.now <= t} :
       \E uncopyable \in IF kind = "absent" THEN {{}} ELSE inputs.copy_failures :
       \E exit \in {main(fs, config,
                         [begun EXCEPT !.cwd = cwd, !.now = now,
                                       !.uncopyable = uncopyable],
                         classifier_call, llm_result, kind, script_readable)} :
         /\ procs' = [procs EXCEPT ![p] = exit.proc]
         /\ files' = exit.files
         /\ stale' = (IF runs THEN {} ELSE stale)
                       \ written_names(config, exit.proc)
         /\ backups' = IF exit.proc.backup_path # NoValue
                         THEN create_pre_destruction_backup(backups, exit.proc)
                         ELSE backups
  /\ UNCHANGED <<config, inputs, asked, probe>>

\* the process has exited; the prompts that were surfaced are remembered
HookExit(p) ==
  /\ procs[p].pc = "done"
  /\ asked' = IF procs[p].output = "ask"
                THEN asked \cup {<<procs[p].session_id, procs[p].command>>}
                ELSE asked
  /\ procs' = [procs EXCEPT ![p] = IdleProc]
  /\ UNCHANGED <<files, stale, backups, config, inputs, started, probe>>

Procs == {1}

\* the hook is run once per proposed command, one run after the other
Next == \E p \in Procs : Hook(p) \/ HookExit(p)

Configurations ==
  [backup_enabled : BOOLEAN,
   dedup_enabled : BOOLEAN,
   skip_additional : {{}},
   skip_remove : {{}}]

\* no session has run yet: ~/.claude holds no deliberate_* file
NoFiles == [name \in FileNames |-> NoValue]

----------------------------------------------------------------------------
(* Specification Spec: one session, every modelled command and every       *)
(* answer of the classifier and of the LLM, under every configuration.     *)

MaxInvocations == 1

Init ==
  /\ files = NoFiles
  /\ stale = {}
  /\ backups = {}
  /\ config \in Configurations
  /\ inputs = [sessions |-> {"A"},
               commands |-> Commands,
               classifier_answers |->
                 [i \in 1..MaxInvocations |-> ClassifierAnswers],
               llm_answers |-> LLMAnswers,
               max_invocations |-> MaxInvocations,
               cwds |-> {ProjectDir},
               seconds |-> {1},
               copy_failures |-> {{}}]
  /\ procs = [p \in Procs |-> IdleProc]
  /\ started = 0
  /\ asked = {}
  /\ probe = NoProbe

Spec == Init /\ [][Next]_vars

----------------------------------------------------------------------------
(* Properties of one invocation, read off the process record at sys.exit    *)

\* the invocation of p has ended and went past the skip check
Analysed(p) ==
  /\ procs[p].pc = "done"
  /\ procs[p].outcome \notin {"NO_COMMAND", "SKIPPED"}

ReportsDangerous(result) == result # NoValue /\ result.risk = "DANGEROUS"

\* C2: whenever call_classifier returns nothing and call_llm_for_explanation
\* returns nothing, the invocation allows the command silently: exit code 0
\* and neither the ASK document nor the refusal is printed.
C2_FailOpen ==
  \A p \in Procs :
    (/\ Analysed(p)
     /\ procs[p].classifier_call = NoValue
     /\ procs[p].llm_result = NoValue)
      => /\ procs[p].exit_code = 0
         /\ procs[p].output = "none"

\* C3: a non-skipped command that is not an inline content write, for which
\* the classifier result and the LLM result both report DANGEROUS, ends in
\* BLOCK: the refusal on stderr, exit code 2, no ASK document.
C3_BothDangerousBlocks ==
  \A p \in Procs :
    (/\ Analysed(p)
     /\ ~procs[p].is_inline_write
     /\ ReportsDangerous(procs[p].classifier_result)
     /\ ReportsDangerous(procs[p].llm_result))
      => /\ procs[p].outcome = "BLOCK"
         /\ procs[p].exit_code = 2
         /\ procs[p].output = "block"

\* both sources were asked, both answered DANGEROUS, and the command was
\* refused
C3_Witness ==
  \E p \in Procs :
    /\ Analysed(p)
    /\ ~procs[p].is_inline_write
    /\ ReportsDangerous(procs[p].classifier_call)
    /\ ReportsDangerous(procs[p].llm_result)
    /\ procs[p].exit_code = 2

\* C4: an invocation ends in BLOCK only if the risk is DANGEROUS, the command
\* is not an inline content write, the LLM itself reported DANGEROUS, and
\* the classifier result reported DANGEROUS too or a script body was read.
C4_BlockOnlyIf ==
  \A p \in Procs :
    (procs[p].pc = "done" /\ procs[p].exit_code = 2)
      => /\ procs[p].risk = "DANGEROUS"
         /\ ~procs[p].is_inline_write
         /\ ReportsDangerous(procs[p].llm_result)
         /\ \/ ReportsDangerous(procs[p].classifier_result)
            \/ procs[p].script_content # NoValue

\* a script was refused on the LLM's reading of its body alone: the
\* classifier gave nothing and no pattern matched
C4_Witness ==
  \E p \in Procs :
    /\ procs[p].pc = "done"
    /\ procs[p].exit_code = 2
    /\ procs[p].classifier_result = NoValue
    /\ procs[p].script_content # NoValue

\* C6: every non-skipped invocation with backup enabled whose consequence
\* analysis found at least one file or directory calls
\* create_pre_destruction_backup before it ends, whatever the risk tier.
C6_BackupWhateverRisk ==
  \A p \in Procs :
    (/\ Analysed(p)
     /\ config.backup_enabled
     /\ should_backup(procs[p].destruction_consequences))
      => procs[p].backup_path # NoValue

----------------------------------------------------------------------------
(* Specification SpecSessions: two sessions whose invocations alternate in  *)
(* any order, on two commands; the classifier calls them MODERATE or        *)
(* DANGEROUS and the LLM is unavailable or calls them DANGEROUS, so that    *)
(* invocations end on the ASK branch and in BLOCK.                          *)

MaxSessionInvocations == 3

SessionCommands == {CmdForcePush, CmdNpmTest}

InitSessions ==
  /\ files = NoFiles
  /\ stale = {}
  /\ backups = {}
  /\ config \in Configurations
  /\ inputs = [sessions |-> Sessions,
               commands |-> SessionCommands,
               classifier_answers |->
                 [i \in 1..MaxSessionInvocations |->
                    {ClassifierResult(risk, "classifier") :
                       risk \in {"MODERATE", "DANGEROUS"}}],
               llm_answers |-> {NoValue, LLMResult("DANGEROUS")},
               max_invocations |-> MaxSessionInvocations,
               cwds |-> {ProjectDir},
               seconds |-> {1},
               copy_failures |-> {{}}]
  /\ procs = [p \in Procs |-> IdleProc]
  /\ started = 0
  /\ asked = {}
  /\ probe = NoProbe

SpecSessions == InitSessions /\ [][Next]_vars

\* the invocation of p went past the SAFE auto-allow and the auto-block: it
\* is on the branch that ends with the ASK document
ReachesAskBranch(p) ==
  /\ Analysed(p)
  /\ procs[p].outcome # "FAIL_OPEN"
  /\ ~(procs[p].risk = "SAFE" /\ procs[p].workflow_patterns = <<>>)
  /\ procs[p].exit_code # 2

\* the ASK prompt for this command text was surfaced earlier in this session
PromptedBefore(p) == <<procs[p].session_id, procs[p].command>> \in asked

\* C5: with deduplication enabled, an invocation on the ASK branch whose
\* command text was already prompted in its session prints nothing and exits
\* 0; one whose text was not (a different text, or the same text in another
\* session only) prints the ASK document and records the key.
C5_Dedup ==
  \A p \in Procs :
    (config.dedup_enabled /\ ReachesAskBranch(p))
      => /\ PromptedBefore(p)
              => procs[p].output = "none" /\ procs[p].exit_code = 0
         /\ ~PromptedBefore(p)
              => /\ procs[p].output = "ask"
                 /\ get_warning_key(procs[p].command)
                      \in load_state(files, procs[p].session_id)

\* the same text was prompted in this session and in the other one, and is
\* now suppressed in this session
C5_Witness ==
  \E p \in Procs :
    /\ config.dedup_enabled
    /\ ReachesAskBranch(p)
    /\ PromptedBefore(p)
    /\ procs[p].output = "none"
    /\ \E other \in Sessions \ {procs[p].session_id} :
         <<other, procs[p].command>> \in asked

----------------------------------------------------------------------------
(* Specification SpecLong: one session that runs "npm test" more than fifty *)
(* times. The classifier calls the first few runs DANGEROUS and every later *)
(* one MODERATE; the LLM is unavailable.                                    *)

MaxLongInvocations == 51

\* what the classifier answers at the i-th invocation
LongClassifierAnswers(dangerous) ==
  [i \in 1..MaxLongInvocations |->
     {ClassifierResult(IF i <= dangerous THEN "DANGEROUS" ELSE "MODERATE",
                       "classifier")}]

InitLong ==
  /\ files = NoFiles
  /\ stale = {}
  /\ backups = {}
  /\ config \in Configurations
  /\ \E dangerous \in {DangerousForHigh, DangerousForCritical} :
       inputs = [sessions |-> {"A"},
                 commands |-> {CmdNpmTest},
                 classifier_answers |-> LongClassifierAnswers(dangerous),
                 llm_answers |-> {NoValue},
                 max_invocations |-> MaxLongInvocations,
                 cwds |-> {ProjectDir},
                 seconds |-> {1},
                 copy_failures |-> {{}}]
  /\ procs = [p \in Procs |-> IdleProc]
  /\ started = 0
  /\ asked = {}
  /\ probe = NoProbe

SpecLong == InitLong /\ [][Next]_vars

\* the cumulative_risk in the history file of a session
StoredCumulativeRisk(fs, session_id) ==
  fs[get_history_file(session_id)].json.cumulative_risk

\* C7: within a session the stored cumulative_risk never decreases: the
\* value add_command_to_history saves is at least the value saved before,
\* also once the history holds more than 50 commands and old ones are evicted.
C7_CumulativeRiskNeverDecreases ==
  [][\A s \in Sessions :
       (/\ files[get_history_file(s)] # NoValue
        /\ files'[get_history_file(s)] # NoValue)
         => RISK_LEVELS[StoredCumulativeRisk(files', s)]
              >= RISK_LEVELS[StoredCumulativeRisk(files, s)]]_vars

----------------------------------------------------------------------------
(* Specification SpecHistory: one session that submits up to three commands *)
(* among "git rm f", "git push --force", "npm test" and "ls -la"; the       *)
(* classifier answers SAFE or DANGEROUS and is down for the second command  *)
(* at most, the LLM is down or answers DANGEROUS.                           *)

MaxHistoryInvocations == 3

HistoryCommands == {CmdGitRm, CmdForcePush, CmdNpmTest, CmdLs}

InitHistory ==
  /\ files = NoFiles
  /\ stale = {}
  /\ backups = {}
  /\ config \in {c \in Configurations : c.backup_enabled /\ c.dedup_enabled}
  /\ inputs = [sessions |-> {"A"},
               commands |-> HistoryCommands,
               classifier_answers |->
                 [i \in 1..MaxHistoryInvocations |->
                    (IF i = 2 THEN {NoValue} ELSE {})
                      \cup {ClassifierResult(risk, "classifier") :
                              risk \in {"SAFE", "DANGEROUS"}}],
               llm_answers |-> {NoValue, LLMResult("DANGEROUS")},
               max_invocations |-> MaxHistoryInvocations,
               cwds |-> {ProjectDir},
               seconds |-> {1},
               copy_failures |-> {{}}]
  /\ procs = [p \in Procs |-> IdleProc]
  /\ started = 0
  /\ asked = {}
  /\ probe = NoProbe

SpecHistory == InitHistory /\ [][Next]_vars

\* the history document in the file of a session (the default one if the
\* file does not exist)
StoredHistory(session_id) == load_command_history(files, session_id)

\* C11: after any sequence of invocations in one session, patterns_detected
\* holds no two entries with the same (name, risk, description).
C11_PatternRecordedOnce ==
  \A s \in Sessions :
    LET detected == StoredHistory(s).patterns_detected
    IN  \A i, j \in 1..Len(detected) :
          detected[i].v = detected[j].v => i = j

\* the commands list after one more record is appended and the list is cut
\* to the most recent MaxHistoryCommands
WithOneMoreRecord(commands, record) ==
  LastN(Append(commands, record), MaxHistoryCommands)

\* the commands in the history of the session of p, before and after a step
CommandsBefore(p) ==
  load_command_history(files, procs'[p].session_id).commands
CommandsAfter(p) ==
  load_command_history(files', procs'[p].session_id).commands

\* the step appends exactly one record, for the command of p
RecordsCommand(p) ==
  /\ CommandsAfter(p) # <<>>
  /\ CommandsAfter(p)[Len(CommandsAfter(p))].command
       = Truncate(procs'[p].command, 500)
  /\ CommandsAfter(p)
       = WithOneMoreRecord(CommandsBefore(p),
                           CommandsAfter(p)[Len(CommandsAfter(p))])

\* C12 (as stated): every invocation with a non-empty command that is not
\* skipped appends exactly one record, carrying the command cut to 500
\* characters, to the history of its session before it ends, whichever way
\* it ends (silent allow, ASK, BLOCK or fail-open).
C12_AnalysedCommandRecorded ==
  [][\A p \in Procs :
       (procs[p].pc = "idle" /\ Analysed(p)') => RecordsCommand(p)]_vars

\* C12 (amended): every such invocation that does not fail open appends
\* exactly one record to the history of its session before it ends, whether
\* it ends in the SAFE silent allow, ASK, a suppressed ASK or BLOCK; an
\* invocation that fails open leaves the history as it was.
C12_RecordedUnlessFailOpen ==
  [][\A p \in Procs :
       (procs[p].pc = "idle" /\ Analysed(p)')
         => IF procs'[p].outcome = "FAIL_OPEN"
              THEN CommandsAfter(p) = CommandsBefore(p)
              ELSE RecordsCommand(p)]_vars

\* a command the classifier called SAFE was allowed silently and is the
\* last record of a history that already held another command
C12_Witness ==
  \E p \in Procs :
    /\ Analysed(p)
    /\ procs[p].outcome = "ALLOW_SILENT"
    /\ LET commands == StoredHistory(procs[p].session_id).commands
       IN  /\ Len(commands) >= 2
           /\ commands[Len(commands)].command = procs[p].command
           /\ commands[Len(commands)].risk = "SAFE"

\* C13: the history of a session never holds more than 50 commands; an
\* invocation that records a command in a history of 50 removes exactly the
\* oldest record and appends the new one, the other 49 keeping their order.
C13_FiftyCommandsOldestEvicted ==
  [][\A p \in Procs :
       /\ \A s \in inputs.sessions :
            Len(load_command_history(files', s).commands)
              <= MaxHistoryCommands
       /\ (/\ procs[p].pc = "idle"
           /\ Analysed(p)'
           /\ procs'[p].outcome # "FAIL_OPEN"
           /\ Len(CommandsBefore(p)) = MaxHistoryCommands)
            => /\ Len(CommandsAfter(p)) = MaxHistoryCommands
               /\ \A i \in 1..(MaxHistoryCommands - 1) :
                     CommandsAfter(p)[i] = CommandsBefore(p)[i + 1]
               /\ CommandsAfter(p)[MaxHistoryCommands]
                    = [command |-> procs'[p].command,
                       risk |-> procs'[p].risk]]_vars

\* the 51st command of a session was recorded: the history holds 50 records
\* and one of the DANGEROUS records of the beginning is gone
C13_Witness ==
  /\ started = MaxHistoryCommands + 1
  /\ \E p \in Procs : Analysed(p) /\ procs[p].risk = "MODERATE"
  /\ \E s \in inputs.sessions :
       LET commands == StoredHistory(s).commands
       IN  /\ Len(commands) = MaxHistoryCommands
           /\ commands[MaxHistoryCommands].risk = "MODERATE"
           /\ Cardinality({i \in 1..Len(commands) :
                             commands[i].risk = "DANGEROUS"})
                \in {DangerousForHigh - 1, DangerousForCritical - 1}

----------------------------------------------------------------------------
(* Two invocations over a deletion: rm -rf b on a missing path, a file or a *)
(* directory, and npm test, in two sessions; the classifier answers SAFE or *)
(* DANGEROUS, the LLM is down or answers DANGEROUS.                         *)

MaxBackupInvocations == 2

BackupCommands == {CmdRmRf, CmdNpmTest}

InitBackup ==
  /\ files = NoFiles
  /\ stale = {}
  /\ backups = {}
  /\ config \in Configurations
  /\ inputs = [sessions |-> Sessions,
               commands |-> BackupCommands,
               classifier_answers |->
                 [i \in 1..MaxBackupInvocations |->
                    {ClassifierResult(risk, "classifier") :
                       risk \in {"SAFE", "DANGEROUS"}}],
               llm_answers |-> {NoValue, LLMResult("DANGEROUS")},
               max_invocations |-> MaxBackupInvocations,
               cwds |-> {ProjectDir},
               seconds |-> {1},
               copy_failures |-> {{}}]
  /\ procs = [p \in Procs |-> IdleProc]
  /\ started = 0
  /\ asked = {}
  /\ probe = NoProbe

SpecBackup == InitBackup /\ [][Next]_vars

\* the invocation of p surfaced a decision or had its prompt suppressed
NotSilentlyAllowed(p) ==
  procs[p].pc = "done" /\ procs[p].outcome \in {"BLOCK", "ASK", "DEDUPLICATED"}

\* C14: an invocation that ends in BLOCK, in ASK or in an ASK suppressed by
\* dedup, with backup enabled and consequences naming at least one file or
\* directory, has made its backup by the time the decision is surfaced.
C14_BackupBeforeDecision ==
  \A p \in Procs :
    (/\ NotSilentlyAllowed(p)
     /\ config.backup_enabled
     /\ should_backup(procs[p].destruction_consequences))
      => /\ procs[p].backup_path # NoValue
         /\ \E b \in backups :
              /\ b.dir = procs[p].backup_path
              /\ b.session_id = procs[p].session_id
              /\ b.command = procs[p].command
              /\ copied_files(procs[p]) \subseteq b.copied

\* a deletion asked about before is repeated: the prompt is suppressed and
\* the backup was made all the same
C14_Witness ==
  \E p \in Procs :
    /\ procs[p].pc = "done"
    /\ procs[p].outcome = "DEDUPLICATED"
    /\ config.backup_enabled
    /\ should_backup(procs[p].destruction_consequences)
    /\ procs[p].backup_path # NoValue

\* C15: an invocation that executes a script whose body was read (not an
\* inline write) and for which the LLM reports DANGEROUS ends in BLOCK,
\* whatever the classifier or the pattern fallback reported.
C15_DangerousScriptBlocks ==
  \A p \in Procs :
    (/\ Analysed(p)
     /\ procs[p].script_content # NoValue
     /\ ~procs[p].is_inline_write
     /\ ReportsDangerous(procs[p].llm_result))
      => procs[p].outcome = "BLOCK"

----------------------------------------------------------------------------
(* Invocations in a state directory that holds the files of earlier runs:   *)
(* both sessions were asked about a force push before, and none, one or     *)
(* both sessions' files are older than seven days.                          *)

MaxCleanupInvocations == 2

CleanupCommands == {CmdLs, CmdForcePush, CmdNpmTest}

CleanupConfig ==
  [backup_enabled |-> TRUE, dedup_enabled |-> TRUE,
   skip_additional |-> {}, skip_remove |-> {}]

\* the files main leaves after asking about a force push in a session
EarlierRun(fs, session_id) ==
  main(fs, CleanupConfig, begin(fs, CleanupConfig, session_id, CmdForcePush),
       ClassifierResult("MODERATE", "classifier"), NoValue, "absent",
       FALSE).files

EarlierFiles == EarlierRun(EarlierRun(NoFiles, "A"), "B")

\* the files of a session in the state directory
SessionFiles(session_id) ==
  {get_state_file(session_id), get_history_file(session_id)}
    \cup {get_cache_file(session_id, cmd_hash_of(c)) : c \in Commands}

InitCleanup ==
  /\ files = EarlierFiles
  /\ \E old \in SUBSET Sessions :
       stale = {name \in FileNames :
                  /\ EarlierFiles[name] # NoValue
                  /\ \E s \in old : name \in SessionFiles(s)}
  /\ backups = {}
  /\ config = CleanupConfig
  /\ inputs = [sessions |-> Sessions,
               commands |-> CleanupCommands,
               classifier_answers |->
                 [i \in 1..MaxCleanupInvocations |->
                    {NoValue, ClassifierResult("MODERATE", "classifier")}],
               llm_answers |-> {NoValue},
               max_invocations |-> MaxCleanupInvocations,
               cwds |-> {ProjectDir},
               seconds |-> {1},
               copy_failures |-> {{}}]
  /\ procs = [p \in Procs |-> IdleProc]
  /\ started = 0
  /\ asked = {<<s, CmdForcePush>> : s \in Sessions}
  /\ probe = NoProbe

SpecCleanup == InitCleanup /\ [][Next]_vars

\* the step is a whole invocation of p that ends at the skip check
SkippedStep(p) ==
  /\ procs[p].pc = "idle"
  /\ procs'[p].pc = "done"
  /\ procs'[p].outcome = "SKIPPED"

\* C17 (as stated): an invocation that ends in SKIPPED exits 0, prints
\* nothing and leaves every persisted state as it was: histories, sets of
\* shown warnings, cache files and backups.
C17_SkippedChangesNothing ==
  [][\A p \in Procs :
       SkippedStep(p)
         => /\ procs'[p].exit_code = 0
            /\ procs'[p].output = "none"
            /\ files' = files
            /\ backups' = backups]_vars

\* C17 (amended): an invocation that ends in SKIPPED exits 0, prints
\* nothing, writes no file and makes no backup; the only change it can
\* make is the removal, by the cleanup that opens every invocation, of
\* state files older than seven days.
C17_SkippedOnlyCleansUp ==
  [][\A p \in Procs :
       SkippedStep(p)
         => /\ procs'[p].exit_code = 0
            /\ procs'[p].output = "none"
            /\ backups' = backups
            /\ \A name \in FileNames :
                 \/ files'[name] = files[name]
                 \/ name \in stale /\ files'[name] = NoValue]_vars

\* ls -la was skipped in a session whose history and set of shown warnings
\* are on disk
C17_Witness ==
  \E p \in Procs :
    /\ procs[p].pc = "done"
    /\ procs[p].outcome = "SKIPPED"
    /\ procs[p].command = CmdLs
    /\ load_command_history(files, procs[p].session_id).commands # <<>>
    /\ load_state(files, procs[p].session_id) # {}

\* the step is a whole invocation of p
InvocationStep(p) == procs[p].pc = "idle" /\ procs'[p].pc = "done"

\* C18 (as stated): an invocation for one session never creates, modifies
\* or deletes the history, shown-warnings or cache file of another session,
\* the cleanup included.
C18_SessionIsolation ==
  [][\A p \in Procs :
       InvocationStep(p)
         => \A s \in Sessions \ {procs'[p].session_id} :
              \A name \in SessionFiles(s) : files'[name] = files[name]]_vars

\* C18 (amended): an invocation for one session never creates or modifies
\* a file of another session; it deletes one only in its cleanup, and then
\* only a file older than seven days.
C18_IsolationButCleanup ==
  [][\A p \in Procs :
       InvocationStep(p)
         => \A s \in Sessions \ {procs'[p].session_id} :
              \A name \in SessionFiles(s) :
                \/ files'[name] = files[name]
                \/ /\ name \in stale
                   /\ files[name] # NoValue
                   /\ files'[name] = NoValue]_vars

\* session A was asked about npm test while the files of session B, asked
\* about a force push earlier, are on disk
C18_Witness ==
  \E p \in Procs :
    /\ procs[p].pc = "done"
    /\ procs[p].session_id = "A"
    /\ procs[p].outcome = "ASK"
    /\ get_warning_key(CmdNpmTest) \in load_state(files, "A")
    /\ load_state(files, "B") = {get_warning_key(CmdForcePush)}
    /\ Len(load_command_history(files, "B").commands) = 1
    /\ files[get_cache_file("B", cmd_hash_of(CmdForcePush))] # NoValue

----------------------------------------------------------------------------
(* Two invocations of one session that overlap: the load, the open and the  *)
(* write of add_command_to_history and of save_state are separate steps of  *)
(* each process. The session was asked about a force push before.           *)

MaxRaceInvocations == 2

RaceProcs == {1, 2}

RaceCommands == {CmdForcePush, CmdNpmTest, CmdGitRm}

InitRace ==
  /\ files = EarlierRun(NoFiles, "A")
  /\ stale = {}
  /\ backups = {}
  /\ config = CleanupConfig
  /\ inputs = [sessions |-> {"A"},
               commands |-> RaceCommands,
               classifier_answers |->
                 [i \in 1..MaxRaceInvocations |->
                    {ClassifierResult("MODERATE", "classifier")}],
               llm_answers |-> {NoValue},
               max_invocations |-> MaxRaceInvocations,
               cwds |-> {ProjectDir},
               seconds |-> {1},
               copy_failures |-> {{}}]
  /\ procs = [p \in RaceProcs |-> IdleProc]
  /\ started = 0
  /\ asked = {<<"A", CmdForcePush>>}
  /\ probe = NoProbe

\* main up to save_to_cache
RaceStart(p) ==
  /\ procs[p].pc = "idle"
  /\ started < inputs.max_invocations
  /\ started' = started + 1
  /\ \E session_id \in inputs.sessions, command \in inputs.commands,
        classifier_call \in inputs.classifier_answers[started + 1],
        llm_result \in inputs.llm_answers :
       \E begun \in {begin(files, config, session_id, command)} :
       \E analysed \in {IF begun.pc = "done" THEN begun
                         ELSE analyse(begun, classifier_call, llm_result,
                                      "absent", FALSE)} :
         /\ procs' = [procs EXCEPT ![p] =
                        IF analysed.pc = "done" THEN analysed
                        ELSE [analysed EXCEPT !.pc = "history_load"]]
         /\ files' = IF analysed.pc = "done" THEN files
                     ELSE save_to_cache(files, analysed)
  /\ UNCHANGED <<stale, backups, config, inputs, asked, probe>>

\* add_command_to_history: history = load_command_history(session_id)
RaceLoadHistory(p) ==
  /\ procs[p].pc = "history_load"
  /\ procs' = [procs EXCEPT
                 ![p].pc = "history_open",
                 ![p].history =
                    load_command_history(files, procs[p].session_id)]
  /\ UNCHANGED <<files, stale, backups, config, inputs, started, asked, probe>>

\* save_command_history: open(history_file, 'w')
RaceOpenHistory(p) ==
  /\ procs[p].pc = "history_open"
  /\ files' = open_w(files, get_history_file(procs[p].session_id))
  /\ procs' = [procs EXCEPT ![p].pc = "history_write"]
  /\ UNCHANGED <<stale, backups, config, inputs, started, asked, probe>>

\* the history add_command_to_history hands to save_command_history
written_history(proc) ==
  json_round_trip(updated_history(proc.history, proc.command, proc.risk))

\* save_command_history: json.dump(history, f) and the close of the file
RaceWriteHistory(p) ==
  /\ procs[p].pc = "history_write"
  /\ files' = write_at_start(files, get_history_file(procs[p].session_id),
                             written_history(procs[p]))
  /\ procs' = [procs EXCEPT ![p].pc = "decide"]
  /\ UNCHANGED <<stale, backups, config, inputs, started, asked, probe>>

\* main from the SAFE auto-allow to load_state and the dedup test
RaceDecide(p) ==
  /\ procs[p].pc = "decide"
  /\ \E final \in {decide(files, config, procs[p])} :
       /\ procs' = [procs EXCEPT ![p] =
                      IF final.outcome = "ASK" /\ config.dedup_enabled
                        THEN [final EXCEPT
                                !.pc = "state_open",
                                !.shown_warnings =
                                   load_state(files, final.session_id)
                                     \cup {get_warning_key(final.command)}]
                        ELSE final]
       /\ backups' = IF final.backup_path # NoValue
                       THEN create_pre_destruction_backup(backups, final)
                       ELSE backups
  /\ UNCHANGED <<files, stale, config, inputs, started, asked, probe>>

\* save_state: open(state_file, 'w')
RaceOpenState(p) ==
  /\ procs[p].pc = "state_open"
  /\ files' = open_w(files, get_state_file(procs[p].session_id))
  /\ procs' = [procs EXCEPT ![p].pc = "state_write"]
  /\ UNCHANGED <<stale, backups, config, inputs, started, asked, probe>>

\* save_state: json.dump(list(shown_warnings), f) and the close, then the
\* ASK document and sys.exit(0)
RaceWriteState(p) ==
  /\ procs[p].pc = "state_write"
  /\ files' = write_at_start(files, get_state_file(procs[p].session_id),
                             procs[p].shown_warnings)
  /\ procs' = [procs EXCEPT ![p].pc = "done"]
  /\ UNCHANGED <<stale, backups, config, inputs, started, asked, probe>>

RaceNext ==
  \E p \in RaceProcs :
    \/ RaceStart(p)
    \/ RaceLoadHistory(p)
    \/ RaceOpenHistory(p)
    \/ RaceWriteHistory(p)
    \/ RaceDecide(p)
    \/ RaceOpenState(p)
    \/ RaceWriteState(p)
    \/ HookExit(p)

SpecRace == InitRace /\ [][RaceNext]_vars

\* both invocations have run to their exit
BothFinished ==
  started = inputs.max_invocations /\ \A p \in RaceProcs : procs[p].pc = "done"

\* C19: when two invocations of one session overlap, both end with a
\* decision, and afterwards the history file and the shown-warnings file
\* each hold the whole document one of the two wrote (or, for the
\* shown-warnings file, the one left before): readable, the earlier
\* command of the session still first in the history, at most 50 commands
\* and at most 100 files at risk.
C19_RaceTolerated ==
  BothFinished
    => /\ \A p \in RaceProcs :
            procs[p].outcome \in {"ALLOW_SILENT", "ASK", "DEDUPLICATED", "BLOCK"}
       /\ readable(files[get_history_file("A")])
       /\ \E p \in RaceProcs :
            load_command_history(files, "A") = written_history(procs[p])
       /\ LET history == load_command_history(files, "A")
          IN  /\ history.commands # <<>>
              /\ history.commands[1].command = CmdForcePush
              /\ Len(history.commands) <= MaxHistoryCommands
              /\ Len(history.files_at_risk) <= 100
       /\ readable(files[get_state_file("A")])
       /\ \/ load_state(files, "A") = {get_warning_key(CmdForcePush)}
          \/ \E p \in RaceProcs :
               /\ procs[p].outcome = "ASK"
               /\ load_state(files, "A") = procs[p].shown_warnings

----------------------------------------------------------------------------
(* Deletions that trigger a backup, in two sessions and in three project    *)
(* directories of which two have the same base name, within the same second *)
(* or in later ones.                                                        *)

MaxDirInvocations == 2

MaxSeconds == 2

ProjectDirs == {<<"x", "proj">>, <<"y", "proj">>, <<"x", "lib">>}

InitDirs ==
  /\ files = NoFiles
  /\ stale = {}
  /\ backups = {}
  /\ config = CleanupConfig
  /\ inputs = [sessions |-> Sessions,
               commands |-> {CmdRmRf},
               classifier_answers |->
                 [i \in 1..MaxDirInvocations |->
                    {ClassifierResult("DANGEROUS", "classifier")}],
               llm_answers |-> {NoValue},
               max_invocations |-> MaxDirInvocations,
               cwds |-> ProjectDirs,
               seconds |-> 1..MaxSeconds,
               copy_failures |-> {{}, {<<"b">>}}]
  /\ procs = [p \in Procs |-> IdleProc]
  /\ started = 0
  /\ asked = {}
  /\ probe = NoProbe

SpecDirs == InitDirs /\ [][Next]_vars

\* C20: every triggered backup makes a backup directory of its own, holding
\* its metadata and its copies, and no later backup rewrites or extends a
\* directory that exists, whether it comes from the same session, another
\* session or another project directory of the same base name, and however
\* soon.
C20_BackupWrittenOnce ==
  [][/\ backups \subseteq backups'
     /\ \A p \in Procs :
          (InvocationStep(p) /\ procs'[p].backup_path # NoValue)
            => /\ \A b \in backups : b.dir # procs'[p].backup_path
               /\ backup_record(procs'[p]) \in backups']_vars

----------------------------------------------------------------------------
(* Specification SpecCopies: create_pre_destruction_backup applied to       *)
(* consequences that list up to 102 files, of which none or one cannot be   *)
(* copied.                                                                  *)

MaxListedFiles == 102

\* the files d/1 .. d/n, in the order the consequences list them
ListedFiles(n) == [i \in 1..n |-> <<"d", i>>]

CopiesInit ==
  /\ HookAbsent
  /\ \E n \in 0..MaxListedFiles :
     \E uncopyable \in {{}} \cup {{<<"d", i>>} : i \in 1..n} :
       probe = [kind |-> "backup",
                listed |-> ListedFiles(n),
                uncopyable |-> uncopyable,
                state |-> "input",
                result |-> {}]

\* the process that calls create_pre_destruction_backup for the probe
BackupCaller ==
  [IdleProc EXCEPT
     !.session_id = "A",
     !.command = CmdRmRf,
     !.cwd = ProjectDir,
     !.now = 1,
     !.uncopyable = probe.uncopyable,
     !.destruction_consequences =
        [files |-> probe.listed, dirs |-> << <<"d">> >>, type |-> "rm"]]

ApplyBackup ==
  /\ probe.kind = "backup"
  /\ probe.state = "input"
  /\ probe' = [probe EXCEPT
                 !.state = "applied",
                 !.result = create_pre_destruction_backup({}, BackupCaller)]
  /\ UNCHANGED hookVars

CopiesNext == ApplyBackup

SpecCopies == CopiesInit /\ [][CopiesNext]_vars

BackupApplied == probe.kind = "backup" /\ probe.state = "applied"

\* the files among the first 100 listed
FirstListed ==
  {probe.listed[i] : i \in 1..Min2(Len(probe.listed), MaxBackupFiles)}

\* C21: however many files the consequences list, one backup copies at
\* most 100 files and records at most 100 mappings, every copied file is
\* among the first 100 listed, and every mapping is of a file that was
\* copied.
C21_AtMostHundredFilesBackedUp ==
  BackupApplied
    => \A b \in probe.result :
         /\ Cardinality(b.copied) <= 100
         /\ Len(b.file_mappings) <= 100
         /\ \A c \in b.copied : c.backup \in FirstListed
         /\ \A i \in 1..Len(b.file_mappings) : b.file_mappings[i] \in b.copied

\* 102 files were listed and 100 of them copied and mapped
C21_Witness ==
  /\ BackupApplied
  /\ Len(probe.listed) = 102
  /\ \E b \in probe.result :
       Cardinality(b.copied) = 100 /\ Len(b.file_mappings) = 100

\* C26: a file whose copy fails is the only one left out: every other file
\* among the first 100 is copied, metadata.json is written with mappings
\* for exactly the copied files, and the backup directory is returned.
C26_FailedCopySkipsOneFile ==
  BackupApplied
    => /\ Cardinality(probe.result) = 1
       /\ \A b \in probe.result :
            /\ b.dir = backup_dir(ProjectDir, 1)
            /\ {c.backup : c \in b.copied} = FirstListed \ probe.uncopyable
            /\ {b.file_mappings[i] : i \in 1..Len(b.file_mappings)} = b.copied
            /\ Len(b.file_mappings) = Cardinality(b.copied)

\* the second of five files could not be copied; the other four were
C26_Witness ==
  /\ BackupApplied
  /\ Len(probe.listed) = 5
  /\ probe.uncopyable = {<<"d", 2>>}
  /\ \E b \in probe.result :
       {c.backup : c \in b.copied}
         = {<<"d", 1>>, <<"d", 3>>, <<"d", 4>>, <<"d", 5>>}

----------------------------------------------------------------------------
(* Specification SpecPaths: the files-at-risk step of add_command_to_history *)
(* applied to a list of 0..100 paths and to up to three affected paths,     *)
(* among them the oldest and the newest path of the list and new paths.     *)

MaxAffectedPaths == 3

\* the paths 1 .. n, the oldest first
PathsAtRisk(n) == [i \in 1..n |-> i]

PathsInit ==
  /\ HookAbsent
  /\ \E n \in 0..MaxFilesAtRisk :
     \E affected \in StringsUpTo({1, n, MaxFilesAtRisk + 1, MaxFilesAtRisk + 2},
                                  MaxAffectedPaths) :
       probe = [kind |-> "paths",
                files_at_risk |-> PathsAtRisk(n),
                affected_paths |-> affected,
                state |-> "input",
                result |-> <<>>]

ApplyPaths ==
  /\ probe.kind = "paths"
  /\ probe.state = "input"
  /\ probe' = [probe EXCEPT
                 !.state = "applied",
                 !.result = track_files_at_risk(probe.files_at_risk,
                                                probe.affected_paths)]
  /\ UNCHANGED hookVars

PathsNext == ApplyPaths

SpecPaths == PathsInit /\ [][PathsNext]_vars

PathsApplied == probe.kind = "paths" /\ probe.state = "applied"

\* the affected paths the list did not hold
NewPaths ==
  {probe.affected_paths[i] : i \in 1..Len(probe.affected_paths)}
    \ {probe.files_at_risk[i] : i \in 1..Len(probe.files_at_risk)}

\* C22: the saved files_at_risk holds at most 100 paths and none twice;
\* every new path is in it; when the old list and the new paths are more
\* than 100, the paths dropped are the oldest of the old list, and the
\* paths kept are in the order they were added.
C22_FilesAtRiskBounded ==
  PathsApplied
    => LET old == probe.files_at_risk
           saved == probe.result
           dropped == Len(old) + Cardinality(NewPaths) - Len(saved)
       IN  /\ Len(saved) <= 100
           /\ \A i, j \in 1..Len(saved) : saved[i] = saved[j] => i = j
           /\ Len(saved) = Min2(100, Len(old) + Cardinality(NewPaths))
           /\ \A i \in 1..(Len(old) - dropped) : saved[i] = old[i + dropped]
           /\ {saved[i] : i \in (Len(old) - dropped + 1)..Len(saved)} = NewPaths

\* a list of 100 paths took two new paths and lost its two oldest
C22_Witness ==
  /\ PathsApplied
  /\ Len(probe.files_at_risk) = 100
  /\ Cardinality(NewPaths) = 2
  /\ Len(probe.result) = 100
  /\ probe.result[1] = probe.files_at_risk[3]
  /\ probe.result[100] \in NewPaths

----------------------------------------------------------------------------
(* Specification SpecRisk: calculate_cumulative_risk applied, as            *)
(* add_command_to_history applies it, to a history of one to six commands   *)
(* of risk SAFE, MODERATE or DANGEROUS, the last one being the current      *)
(* command, with no detected pattern, MASS_DELETE or REPO_WIPE.             *)

MaxRiskCommands == 6

ClassifierRisks == {"SAFE", "MODERATE", "DANGEROUS"}

\* a history whose commands carry these risks
HistoryOfRisks(risks, patterns) ==
  [default_history EXCEPT
     !.commands = [i \in 1..Len(risks) |->
                     [command |-> CmdNpmTest, risk |-> risks[i]]],
     !.patterns_detected = patterns]

RiskInit ==
  /\ HookAbsent
  /\ \E risks \in StringsUpTo(ClassifierRisks, MaxRiskCommands) \ {<<>>} :
     \E patterns \in {<<>>} \cup {<<PyList(DetectedTuple(WORKFLOW_PATTERNS[k]).v)>> :
                                     k \in {1, 3}} :
       probe = [kind |-> "risk",
                history |-> HistoryOfRisks(risks, patterns),
                current_risk |-> risks[Len(risks)],
                state |-> "input",
                result |-> ""]

ApplyRisk ==
  /\ probe.kind = "risk"
  /\ probe.state = "input"
  /\ probe' = [probe EXCEPT
                 !.state = "applied",
                 !.result = calculate_cumulative_risk(probe.history,
                                                      probe.current_risk)]
  /\ UNCHANGED hookVars

RiskNext == ApplyRisk

SpecRisk == RiskInit /\ [][RiskNext]_vars

RiskApplied == probe.kind = "risk" /\ probe.state = "applied"

\* the number of commands of the probed history that carry a risk
CountOfRisk(risk) ==
  Cardinality({i \in 1..Len(probe.history.commands) :
                 probe.history.commands[i].risk = risk})

\* C23: with at least 5 DANGEROUS commands in the history the computed
\* cumulative risk is CRITICAL, with at least 3 it is HIGH or CRITICAL, and
\* with fewer than 3 and no detected pattern it is below HIGH.
C23_EscalationThresholds ==
  RiskApplied
    => /\ CountOfRisk("DANGEROUS") >= 5 => probe.result = "CRITICAL"
       /\ CountOfRisk("DANGEROUS") >= 3
            => probe.result \in {"HIGH", "CRITICAL"}
       /\ (/\ CountOfRisk("DANGEROUS") < 3
           /\ probe.history.patterns_detected = <<>>)
            => probe.result \in {"LOW", "MODERATE"}

\* exactly three DANGEROUS commands and no pattern give HIGH
C23_Witness ==
  /\ RiskApplied
  /\ CountOfRisk("DANGEROUS") = 3
  /\ probe.history.patterns_detected = <<>>
  /\ probe.result = "HIGH"

\* C24: a history in which every command had risk SAFE and no pattern was
\* detected has the cumulative risk LOW.
C24_SafeIsLow ==
  (/\ RiskApplied
   /\ CountOfRisk("SAFE") = Len(probe.history.commands)
   /\ probe.history.patterns_detected = <<>>)
    => probe.result = "LOW"

----------------------------------------------------------------------------
(* get_destruction_consequences on every dispatch branch                    *)

CmdGitResetHard == <<"g", "i", "t", " ", "r", "e", "s", "e", "t", " ", "-", "-", "h", "a", "r", "d">>   \* git reset --hard
CmdGitClean == <<"g", "i", "t", " ", "c", "l", "e", "a", "n", " ", "-", "f", "d">>   \* git clean -fd
CmdGitCheckoutDiscard == <<"g", "i", "t", " ", "c", "h", "e", "c", "k", "o", "u", "t", " ", "-", "-", " ", ".">>   \* git checkout -- .
CmdGitCheckoutDot == <<"g", "i", "t", " ", "c", "h", "e", "c", "k", "o", "u", "t", " ", ".">>   \* git checkout .
CmdGitStashDrop == <<"g", "i", "t", " ", "s", "t", "a", "s", "h", " ", "d", "r", "o", "p">>   \* git stash drop
CmdRmNoTarget == <<"r", "m", " ", "-", "r", "f">>   \* rm -rf
CmdConfirm == <<".", "/", "c", "o", "n", "f", "i", "r", "m", " ", "b">>   \* ./confirm b

\* the index of the first character at or after i that is not whitespace
RECURSIVE skip_whitespace(_, _)
skip_whitespace(s, i) ==
  IF i <= Len(s) /\ s[i] \in Whitespace THEN skip_whitespace(s, i + 1) ELSE i

\* w1\s+w2\s+...: the index after the last word when the words stand at i,
\* and 0 when they do not
RECURSIVE words_end(_, _, _)
words_end(s, i, words) ==
  LET word == Head(words)
      after == i + Len(word)
  IN  IF after - 1 > Len(s) \/ SubSeq(s, i, after - 1) # word THEN 0
      ELSE IF Tail(words) = <<>> THEN after
      ELSE IF skip_whitespace(s, after) = after THEN 0
      ELSE words_end(s, skip_whitespace(s, after), Tail(words))

\* re.search(r'w1\s+w2...', s)
search_words(s, words) == \E i \in 1..Len(s) : words_end(s, i, words) # 0

\* (?:-[letters]+\s+)*: the index after the flags that stand at i
RECURSIVE skip_flags(_, _, _)
skip_flags(s, i, letters) ==
  IF i > Len(s) \/ s[i] # "-" THEN i
  ELSE LET ends == {j \in (i + 1)..Len(s) : \A k \in (i + 1)..j : s[k] \in letters}
           last == i + Cardinality(ends)
       IN  IF ends = {} \/ skip_whitespace(s, last + 1) = last + 1 THEN i
           ELSE skip_flags(s, skip_whitespace(s, last + 1), letters)

Separators == {"|", ";", "&", ">"}

\* (.+?)(?:\s*[|;&>]|$): the last index of the shortest group that starts at p
group_end(s, p) ==
  CHOOSE q \in p..Len(s) :
    /\ \/ q = Len(s)
       \/ LET next == skip_whitespace(s, q + 1)
          IN  next <= Len(s) /\ s[next] \in Separators
    /\ \A r \in p..(q - 1) :
         LET next == skip_whitespace(s, r + 1)
         IN  ~(next <= Len(s) /\ s[next] \in Separators)

\* where words\s+(?:-[letters]+\s+)*(.+?)(?:\s*[|;&>]|$) matches: the start
\* of the word and the start of the group
target_matches(s, words, letters) ==
  {m \in (1..Len(s)) \X (1..Len(s)) :
     LET after == words_end(s, m[1], words)
     IN  /\ after # 0
         /\ skip_whitespace(s, after) # after
         /\ m[2] = skip_flags(s, skip_whitespace(s, after), letters)}

\* re.search of the pattern: group(1) of the leftmost match, or nothing
target_group(s, words, letters) ==
  LET matches == target_matches(s, words, letters)
  IN  IF matches = {} THEN NoValue
      ELSE LET m == CHOOSE x \in matches : \A y \in matches : x[1] <= y[1]
           IN  PyStr(SubSeq(s, m[2], group_end(s, m[2])))

\* str.split(): the words between runs of whitespace
RECURSIVE split(_)
split(s) ==
  LET from == skip_whitespace(s, 1)
  IN  IF from > Len(s) THEN <<>>
      ELSE LET ends == {j \in from..Len(s) : \A k \in from..j : s[k] \notin Whitespace}
               to == from + Cardinality(ends) - 1
           IN  <<SubSeq(s, from, to)>> \o split(SubSeq(s, to + 1, Len(s)))

\* the rm branch's match: the type and the targets
rm_match(command) ==
  LET rm_group == target_group(command, <<<<"r", "m">>>>, {"r", "f", "i", "v", "d"})
      git_rm_group == target_group(command, <<<<"g", "i", "t">>, <<"r", "m">>>>, {"r", "f"})
  IN  IF rm_group # NoValue
        THEN [type |-> "rm", targets |-> split(strip(rm_group.v))]
      ELSE IF git_rm_group # NoValue
        THEN [type |-> "git_rm", targets |-> split(strip(git_rm_group.v))]
      ELSE [type |-> NoValue, targets |-> <<>>]

\* how a git command run by an analyser ends
GitOutcomes == {"ok", "failed", "timeout"}

\* a line of git's output: what marks the line, the path it names and
\* whether the path is a directory on disk
GitLine(mark, path, isdir) == [mark |-> mark, path |-> path, isdir |-> isdir]

\* the paths of the lines that satisfy the analyser's test, in order
RECURSIVE listed_paths(_, _, _)
listed_paths(lines, marks, isdir) ==
  IF lines = <<>> THEN <<>>
  ELSE (IF Head(lines).mark \in marks /\ Head(lines).isdir = isdir
          THEN <<Head(lines).path>> ELSE <<>>)
       \o listed_paths(Tail(lines), marks, isdir)

\* the git analysers: nothing when git fails, times out or names no path
analyze_git(type, git) ==
  IF git.outcome # "ok" \/ git.lines = <<>> THEN NoValue
  ELSE LET marks == CASE type = "git_reset_hard" -> {"M", "A"}
                      [] type = "git_clean" -> {"Would remove"}
                      [] type = "git_checkout_discard" -> {"path"}
                      [] type = "git_stash_drop" -> {"|"}
           dirs == IF type = "git_clean"
                     THEN listed_paths(git.lines, marks, TRUE)
                     ELSE <<>>
           walked == [i \in 1..Len(dirs) |-> Append(dirs[i], "x")]
           consequences ==
             [files |-> IF type = "git_clean"
                          THEN walked \o listed_paths(git.lines, marks, FALSE)
                          ELSE listed_paths(git.lines, marks, FALSE)
                                 \o listed_paths(git.lines, marks, TRUE),
              dirs |-> dirs,
              type |-> type]
       IN  IF consequences.files = <<>> /\ consequences.dirs = <<>>
             THEN NoValue
             ELSE consequences

\* the targets that are not flags
path_targets(targets) ==
  LET IsPath(target) == ~startswith(target, <<"-">>)
  IN  SelectSeq(targets, IsPath)

\* re.search(r'git\s+checkout\s+\.\s*$', command)
checkout_dot(command) ==
  \E i \in 1..Len(command) :
    LET after == words_end(command, i, <<<<"g", "i", "t">>, <<"c", "h", "e", "c", "k", "o", "u", "t">>, <<".">>>>)
    IN  after # 0 /\ skip_whitespace(command, after) > Len(command)

\* the branch get_destruction_consequences takes, from the command's text
consequence_branch(command) ==
  IF search_words(command, <<<<"g", "i", "t">>, <<"r", "e", "s", "e", "t">>, <<"-", "-", "h", "a", "r", "d">>>>) THEN "git_reset_hard"
  ELSE IF search_words(command, <<<<"g", "i", "t">>, <<"c", "l", "e", "a", "n">>>>) THEN "git_clean"
  ELSE IF search_words(command, <<<<"g", "i", "t">>, <<"c", "h", "e", "c", "k", "o", "u", "t">>, <<"-", "-">>>>) \/ checkout_dot(command) THEN "git_checkout_discard"
  ELSE IF search_words(command, <<<<"g", "i", "t">>, <<"s", "t", "a", "s", "h">>, <<"d", "r", "o", "p">>>>) THEN "git_stash_drop"
  ELSE "rm"

\* get_destruction_consequences(command, cwd) on every branch: kind is what
\* the rm targets are on disk, git is what the analyser's git command answers
analyze_destruction(command, kind, git) ==
  IF consequence_branch(command) # "rm"
    THEN analyze_git(consequence_branch(command), git)
  ELSE LET match == rm_match(command)
       IN  IF match.targets = <<>> THEN NoValue
           ELSE LET found == analyze_targets(path_targets(match.targets), kind)
                    consequences == [found EXCEPT !.type = match.type]
                IN  IF consequences.files # <<>> \/ consequences.dirs # <<>>
                      THEN consequences
                      ELSE NoValue

MaxGitLines == 2

ConsequenceCommands ==
  {CmdGitResetHard, CmdGitClean, CmdGitCheckoutDiscard, CmdGitCheckoutDot,
   CmdGitStashDrop, CmdRmRf, CmdGitRm, CmdGitRmThenPush, CmdRmNoTarget,
   CmdNpmTest, CmdLs, CmdConfirm}

\* the lines the git command of a branch can print about the path f
GitLinesOf(branch) ==
  CASE branch = "git_reset_hard" ->
         {GitLine(mark, <<"f">>, FALSE) : mark \in {"M", "A", "D", "?"}}
    [] branch = "git_clean" ->
         {GitLine(mark, <<"f">>, isdir) :
            mark \in {"Would remove", "Would skip"}, isdir \in BOOLEAN}
    [] branch = "git_checkout_discard" -> {GitLine("path", <<"f">>, FALSE)}
    [] branch = "git_stash_drop" ->
         {GitLine(mark, <<"f">>, FALSE) : mark \in {"|", "summary"}}
    [] branch = "rm" -> {}

\* git is not run on the rm branch
GitAnswers(branch) ==
  IF branch = "rm" THEN {[outcome |-> "ok", lines |-> <<>>]}
  ELSE {[outcome |-> outcome, lines |-> lines] :
          outcome \in GitOutcomes,
          lines \in StringsUpTo(GitLinesOf(branch), MaxGitLines)}

ConsequencesInit ==
  /\ HookAbsent
  /\ \E command \in ConsequenceCommands :
     \E kind \in IF consequence_branch(command) = "rm" THEN TargetKinds ELSE {"absent"} :
     \E git \in GitAnswers(consequence_branch(command)) :
       probe = [kind |-> "consequences",
                command |-> command,
                target_kind |-> kind,
                git |-> git,
                state |-> "input",
                result |-> NoValue]

ApplyConsequences ==
  /\ probe.kind = "consequences"
  /\ probe.state = "input"
  /\ probe' = [probe EXCEPT
                 !.state = "applied",
                 !.result = analyze_destruction(probe.command, probe.target_kind, probe.git)]
  /\ UNCHANGED hookVars

ConsequencesNext == ApplyConsequences

SpecConsequences == ConsequencesInit /\ [][ConsequencesNext]_vars

ConsequencesApplied == probe.kind = "consequences" /\ probe.state = "applied"

\* the commands of the probe that delete and discard nothing
NonDestructiveCommands == {CmdNpmTest, CmdLs, CmdConfirm}

\* the cases that delete nothing: a command that is not destructive, git
\* failing or timing out (a stash that does not resolve included), a clean
\* working tree, rm targets that do not exist
NothingToLose ==
  \/ probe.command \in NonDestructiveCommands
  \/ /\ consequence_branch(probe.command) # "rm"
     /\ probe.git.outcome # "ok" \/ probe.git.lines = <<>>
  \/ /\ consequence_branch(probe.command) = "rm"
     /\ probe.target_kind = "absent"

\* C25: on every dispatch branch get_destruction_consequences returns nothing
\* or a Consequence whose files and dirs are not both empty, and it returns
\* nothing for a command that is not destructive, a clean working tree, a
\* stash that does not resolve, a git failure and rm targets that do not exist
C25_ConsequenceOnlyOfFoundPaths ==
  ConsequencesApplied =>
    /\ \/ probe.result = NoValue
       \/ probe.result.files # <<>>
       \/ probe.result.dirs # <<>>
    /\ NothingToLose => probe.result = NoValue

----------------------------------------------------------------------------
(* The fallback pattern layer of main                                       *)

MaxPadding == 1

\* command texts without leading whitespace
FallbackTexts ==
  {<<"e", "c", "h", "o", " ", "h", "i">>, <<"E", "C", "H", "O", " ", "h", "i">>, <<"l", "s", "o", "f">>, <<"n", "p", "m", " ", "t", "e", "s", "t">>, <<"r", "m", " ", "-", "r", "f", " ", "b">>, <<"R", "M", " ", "-", "R", "F", " ", "b">>,
   <<"x", " ", "s", "u", "d", "o", " ", "y">>, <<"G", "i", "t", " ", "S", "t", "a", "t", "u", "s">>, <<"e", "c", "h", "o", " ", "x", ";", " ", "s", "u", "d", "o", " ", "y">>, <<"d", "r", "o", "p", " ", "t", "a", "b", "l", "e">>, <<"D", "R", "O", "P", " ", "T", "A", "B", "L", "E">>,
   <<"m", "v", " ", "a", " ", "b">>}

\* the texts, also behind leading blanks
FallbackCommands ==
  {[i \in 1..n |-> " "] \o text : n \in 0..MaxPadding, text \in FallbackTexts}

FallbackInit ==
  /\ HookAbsent
  /\ \E command \in FallbackCommands :
     \E classifier_call \in ClassifierAnswers :
       probe = [kind |-> "fallback",
                command |-> command,
                classifier_call |-> classifier_call,
                state |-> "input",
                result |-> NoValue]

ApplyFallback ==
  /\ probe.kind = "fallback"
  /\ probe.state = "input"
  /\ probe' = [probe EXCEPT
                 !.state = "applied",
                 !.result = classifier_or_fallback(probe.command, probe.classifier_call)]
  /\ UNCHANGED hookVars

FallbackNext == ApplyFallback

SpecFallback == FallbackInit /\ [][FallbackNext]_vars

\* the classifier gave no answer and the fallback layer has run
FallbackApplied ==
  /\ probe.kind = "fallback"
  /\ probe.state = "applied"
  /\ probe.classifier_call = NoValue

StartsWithSafePrefix ==
  \E i \in 1..Len(SAFE_PREFIXES) :
    startswith(lower(strip(probe.command)), lower(SAFE_PREFIXES[i]))

ContainsDangerousSubstring ==
  \E i \in 1..Len(DANGEROUS_PATTERNS) :
    contains(lower(probe.command), lower(DANGEROUS_PATTERNS[i]))

\* C27: when the classifier is unavailable the fallback layer yields SAFE if
\* the trimmed command starts, in any letter case, with a safe prefix,
\* otherwise DANGEROUS if the command contains, in any letter case, a
\* dangerous substring, otherwise no result; a fallback result has the source
\* "pattern"
C27_FallbackPatternLayer ==
  FallbackApplied =>
    IF StartsWithSafePrefix
      THEN /\ probe.result # NoValue
           /\ probe.result.risk = "SAFE"
           /\ probe.result.source = "pattern"
    ELSE IF ContainsDangerousSubstring
      THEN /\ probe.result # NoValue
           /\ probe.result.risk = "DANGEROUS"
           /\ probe.result.source = "pattern"
    ELSE probe.result = NoValue

\* a padded upper-case command is SAFE by its prefix
C27_Witness ==
  /\ FallbackApplied
  /\ probe.command = <<" ">> \o <<"E", "C", "H", "O", " ", "h", "i">>
  /\ probe.result # NoValue
  /\ probe.result.risk = "SAFE"
  /\ probe.result.source = "pattern"

----------------------------------------------------------------------------
(* Specification SpecTerminates: main step by step, waiting at each of its  *)
(* external calls: the classifier request, the LLM subprocess and the git   *)
(* subprocesses of the backup. Each call returns an answer or ends in a     *)
(* timeout or failure, which main reads as no answer.                       *)

MaxTermInvocations == 2

\* no command, a skipped command, a command with a target and one without
TermCommands == {CmdEmpty, CmdLs, CmdRmRf, CmdNpmTest}

TermInit ==
  /\ files = NoFiles
  /\ stale = {}
  /\ backups = {}
  /\ config \in Configurations
  /\ \E kind \in {"absent", "file"} :
       inputs = [sessions |-> {"A"},
                 commands |-> TermCommands,
                 classifier_answers |->
                   [i \in 1..MaxTermInvocations |->
                      {NoValue} \cup {ClassifierResult(risk, "classifier") :
                                        risk \in {"SAFE", "DANGEROUS"}}],
                 llm_answers |-> {NoValue, LLMResult("DANGEROUS")},
                 max_invocations |-> MaxTermInvocations,
                 cwds |-> {ProjectDir},
                 seconds |-> {1},
                 copy_failures |-> {{}},
                 target_kind |-> kind]
  /\ procs = [p \in Procs |-> IdleProc]
  /\ started = 0
  /\ asked = {}
  /\ probe = NoProbe

\* what the rm targets of the command are on disk
target_kind(command) ==
  IF destruction_type(command) = NoValue THEN "absent" ELSE inputs.target_kind

\* main up to the classifier request: the input record, the skip check, the
\* history and the consequences. One process runs at a time, so the files
\* main reads stay as they are while it waits; what the calls are going to
\* answer is drawn here and main's exit with these answers is kept in probe
\* until the calls have returned
TermStart(p) ==
  /\ procs[p].pc = "idle"
  /\ started < inputs.max_invocations
  /\ started' = started + 1
  /\ \E session_id \in inputs.sessions, command \in inputs.commands :
     \E begun \in {begin(files, config, session_id, command)} :
       IF begun.pc = "done"
         THEN /\ procs' = [procs EXCEPT ![p] = begun]
              /\ probe' = probe
         ELSE \E classifier_call \in inputs.classifier_answers[started + 1],
                 llm_result \in inputs.llm_answers :
              \E waiting \in {[begun EXCEPT !.cwd = ProjectDir, !.now = 1]} :
                /\ procs' = [procs EXCEPT ![p] =
                               [waiting EXCEPT !.pc = "classifier"]]
                /\ probe' = [kind |-> "pending",
                             exit |-> main(files, config, waiting,
                                           classifier_call, llm_result,
                                           target_kind(command), TRUE)]
  /\ UNCHANGED <<files, stale, backups, config, inputs, asked>>

\* call_classifier returns: an answer, or nothing after a timeout, a refused
\* connection or any other exception
TermClassifierReturns(p) ==
  /\ procs[p].pc = "classifier"
  /\ procs' = [procs EXCEPT
                 ![p].classifier_call = probe.exit.proc.classifier_call,
                 ![p].pc = "llm"]
  /\ UNCHANGED <<files, stale, backups, config, inputs, started, asked, probe>>

\* call_llm_for_explanation returns: an answer, or nothing after a timeout
\* or a failure of the subprocess; main goes on to sys.exit unless a backup
\* is to be made first
TermLLMReturns(p) ==
  /\ procs[p].pc = "llm"
  /\ IF probe.exit.proc.backup_path # NoValue
       THEN /\ procs' = [procs EXCEPT
                           ![p].llm_result = probe.exit.proc.llm_result,
                           ![p].pc = "git"]
            /\ UNCHANGED <<files, probe>>
       ELSE /\ procs' = [procs EXCEPT ![p] = probe.exit.proc]
            /\ files' = probe.exit.files
            /\ probe' = NoProbe
  /\ UNCHANGED <<stale, backups, config, inputs, started, asked>>

\* the git subprocesses of create_pre_destruction_backup return: their
\* answers, a failure or a timeout only change the git_state written to
\* metadata.json; the backup is made and main goes on to sys.exit
TermGitReturns(p) ==
  /\ procs[p].pc = "git"
  /\ \E git \in GitOutcomes :
       /\ procs' = [procs EXCEPT ![p] = probe.exit.proc]
       /\ files' = probe.exit.files
       /\ backups' = create_pre_destruction_backup(backups, probe.exit.proc)
       /\ probe' = NoProbe
  /\ UNCHANGED <<stale, config, inputs, started, asked>>

TermNext ==
  \E p \in Procs :
    \/ TermStart(p)
    \/ TermClassifierReturns(p)
    \/ TermLLMReturns(p)
    \/ TermGitReturns(p)
    \/ HookExit(p)

\* every external call eventually returns or times out
TermFairness ==
  \A p \in Procs :
    /\ WF_vars(TermClassifierReturns(p))
    /\ WF_vars(TermLLMReturns(p))
    /\ WF_vars(TermGitReturns(p))

SpecTerminates == TermInit /\ [][TermNext]_vars /\ TermFairness

\* the exits without output that the claim lists
ListedSilentOutcomes == {"SKIPPED", "ALLOW_SILENT", "DEDUPLICATED"}

\* every exit without output: also the input without a command and the
\* fail-open exit taken when neither the classifier nor the LLM gave a risk
SilentOutcomes == ListedSilentOutcomes \cup {"NO_COMMAND", "FAIL_OPEN"}

\* the invocation of p has ended in one of the terminal outcomes
EndedIn(p, silent) ==
  /\ procs[p].pc = "done"
  /\ \/ /\ procs[p].outcome \in silent
        /\ procs[p].output = "none"
        /\ procs[p].exit_code = 0
     \/ /\ procs[p].outcome = "ASK"
        /\ procs[p].output = "ask"
        /\ procs[p].exit_code = 0
     \/ /\ procs[p].outcome = "BLOCK"
        /\ procs[p].output = "block"
        /\ procs[p].exit_code = 2

----------------------------------------------------------------------------
(* Deduplication and the auto-block                                         *)

\* the invocation got as far as the choice of the risk and its answers
\* satisfy the block conditions: the risk is DANGEROUS, the command is not an
\* inline write, the LLM says DANGEROUS and either the classifier says so
\* too or a script body was analysed
BlockConditions(proc) ==
  /\ proc.pc = "done"
  /\ proc.outcome \notin {"NO_COMMAND", "SKIPPED", "FAIL_OPEN"}
  /\ proc.risk = "DANGEROUS"
  /\ ~proc.is_inline_write
  /\ proc.llm_result # NoValue
  /\ proc.llm_result.risk = "DANGEROUS"
  /\ \/ proc.script_content # NoValue
     \/ /\ proc.classifier_result # NoValue
        /\ proc.classifier_result.risk = "DANGEROUS"

\* C29: in src/hooks/deliberate-commands.py a command that satisfies the
\* block conditions is blocked on every invocation, whatever the dedup set
\* of the session holds, and the invocation leaves the dedup set as it was
C29_DedupNeverWeakensBlock ==
  [][\A p \in Procs :
       (InvocationStep(p) /\ BlockConditions(procs'[p]))
         => /\ procs'[p].outcome = "BLOCK"
            /\ procs'[p].exit_code = 2
            /\ files'[get_state_file(procs'[p].session_id)]
                 = files[get_state_file(procs'[p].session_id)]]_vars

\* a command is blocked while its key is in the dedup set from an earlier ASK
C29_Witness ==
  \E p \in Procs :
    /\ BlockConditions(procs[p])
    /\ procs[p].outcome = "BLOCK"
    /\ get_warning_key(procs[p].command) \in load_state(files, procs[p].session_id)
    /\ <<procs[p].session_id, procs[p].command>> \in asked

----------------------------------------------------------------------------
(* The packaged hook src/packages/claude-code/hooks/deliberate-commands.py: *)
(* main has no history, consequences or backup, and its deduplication       *)
(* stands before the cache write, the SAFE auto-allow and the auto-block    *)

\* main of the packaged hook from the deduplication to the end
packaged_decide(fs, cfg, proc) ==
  LET warning_key == get_warning_key(proc.command)
      shown_warnings == load_state(fs, proc.session_id)
      marked == IF cfg.dedup_enabled
                  THEN write_file(fs, get_state_file(proc.session_id),
                                  shown_warnings \cup {warning_key})
                  ELSE fs
      cached == save_to_cache(marked, proc)
  IN  IF cfg.dedup_enabled /\ warning_key \in shown_warnings
        THEN [proc |-> Terminated([proc EXCEPT !.shown_before = TRUE],
                                  "DEDUPLICATED", 0, "none"),
              files |-> fs]
      ELSE IF proc.risk = "SAFE"
        THEN [proc |-> Terminated(proc, "ALLOW_SILENT", 0, "none"),
              files |-> cached]
      ELSE IF should_block(proc.risk, proc.is_inline_write,
                           proc.classifier_result, proc.llm_result,
                           proc.script_content)
        THEN [proc |-> Terminated(proc, "BLOCK", 2, "block"), files |-> cached]
      ELSE [proc |-> Terminated(proc, "ASK", 0, "ask"), files |-> cached]

\* main of the packaged hook: the process record at sys.exit and the files
\* it leaves in ~/.claude
packaged_main(fs, cfg, session_id, command, classifier_call, llm_result, script_readable) ==
  LET begun == [IdleProc EXCEPT !.session_id = session_id,
                                !.command = command]
  IN  IF command = CmdEmpty
        THEN [proc |-> Terminated(begun, "NO_COMMAND", 0, "none"), files |-> fs]
      ELSE IF should_skip_command(command, load_skip_commands(cfg))
        THEN [proc |-> Terminated(begun, "SKIPPED", 0, "none"), files |-> fs]
      ELSE LET analysed == analyse([begun EXCEPT !.pc = "classify"],
                                   classifier_call, llm_result, "absent",
                                   script_readable)
           IN  IF analysed.pc = "done"
                 THEN [proc |-> analysed, files |-> fs]
                 ELSE packaged_decide(fs, cfg, analysed)

MaxPackagedInvocations == 2

PackagedCommands == {CmdLs, CmdShScript, CmdEchoWrite, CmdRmRf, CmdNpmTest}

\* the classifier and the LLM give the same answer every time they are asked
InitPackaged ==
  /\ files = NoFiles
  /\ stale = {}
  /\ backups = {}
  /\ config \in Configurations
  /\ \E classifier_call \in ClassifierAnswers, llm_result \in LLMAnswers :
       inputs = [sessions |-> {"A"},
                 commands |-> PackagedCommands,
                 classifier_answers |->
                   [i \in 1..MaxPackagedInvocations |-> {classifier_call}],
                 llm_answers |-> {llm_result},
                 max_invocations |-> MaxPackagedInvocations,
                 cwds |-> {ProjectDir},
                 seconds |-> {1},
                 copy_failures |-> {{}}]
  /\ procs = [p \in Procs |-> IdleProc]
  /\ started = 0
  /\ asked = {}
  /\ probe = NoProbe

\* one run of the packaged main, from reading the input record to sys.exit
PackagedHook(p) ==
  /\ procs[p].pc = "idle"
  /\ started < inputs.max_invocations
  /\ started' = started + 1
  /\ \E session_id \in inputs.sessions, command \in inputs.commands,
        classifier_call \in inputs.classifier_answers[started + 1],
        llm_result \in inputs.llm_answers :
       \E script_readable \in IF script_path_match(command) = NoValue
                                THEN {FALSE} ELSE {TRUE} :
       \E exit \in {packaged_main(files, config, session_id, command,
                                  classifier_call, llm_result,
                                  script_readable)} :
         /\ procs' = [procs EXCEPT ![p] = exit.proc]
         /\ files' = exit.files
  /\ UNCHANGED <<stale, backups, config, inputs, asked, probe>>

PackagedNext == \E p \in Procs : PackagedHook(p) \/ HookExit(p)

SpecPackaged == InitPackaged /\ [][PackagedNext]_vars

\* C30: in the packaged hook, with the classifier and the LLM answering the
\* same every time, a command whose answers satisfy the block conditions,
\* and which is therefore blocked on its first invocation, is blocked on
\* every invocation of the session: a retry is never allowed silently
C30_BlockedStaysBlocked ==
  [][\A p \in Procs :
       (InvocationStep(p) /\ BlockConditions(procs'[p]))
         => procs'[p].outcome = "BLOCK" /\ procs'[p].exit_code = 2]_vars

----------------------------------------------------------------------------
(* Workflow warnings                                                        *)

\* C31: whenever a workflow pattern is detected for the current command and
\* the invocation does not fail open, the invocation ends in ASK or in BLOCK
\* and never without output, whatever the risk and the dedup set are
C31_WorkflowPatternWarns ==
  [][\A p \in Procs :
       (/\ InvocationStep(p)
        /\ procs'[p].workflow_patterns # <<>>
        /\ procs'[p].outcome # "FAIL_OPEN")
         => procs'[p].outcome \in {"ASK", "BLOCK"}]_vars

----------------------------------------------------------------------------
(* Specification SpecBlocking: the configuration file with and without the  *)
(* blocking section                                                         *)

\* load_blocking_config(): enabled is False when the file does not say
load_blocking_config(cfg) ==
  [enabled |-> IF "blocking_enabled" \in DOMAIN cfg
                 THEN cfg.blocking_enabled
                 ELSE FALSE]

MaxBlockingInvocations == 1

\* the configuration without a blocking section, and with enabled set
BlockingConfigurations ==
  Configurations
    \cup [backup_enabled : BOOLEAN,
          dedup_enabled : BOOLEAN,
          skip_additional : {{}},
          skip_remove : {{}},
          blocking_enabled : BOOLEAN]

InitBlocking ==
  /\ files = NoFiles
  /\ stale = {}
  /\ backups = {}
  /\ config \in BlockingConfigurations
  /\ inputs = [sessions |-> {"A"},
               commands |-> {CmdLs, CmdShScript, CmdRmRf, CmdNpmTest},
               classifier_answers |->
                 [i \in 1..MaxBlockingInvocations |-> ClassifierAnswers],
               llm_answers |-> LLMAnswers,
               max_invocations |-> MaxBlockingInvocations,
               cwds |-> {ProjectDir},
               seconds |-> {1},
               copy_failures |-> {{}}]
  /\ procs = [p \in Procs |-> IdleProc]
  /\ started = 0
  /\ asked = {}
  /\ probe = NoProbe

SpecBlocking == InitBlocking /\ [][Next]_vars

\* C32: when blocking.enabled is false, as it is by default, no invocation
\* ends in BLOCK: a command that satisfies the block conditions ends in ASK
C32_NoBlockUnlessEnabled ==
  \A p \in Procs :
    (procs[p].pc = "done" /\ ~load_blocking_config(config).enabled)
      => /\ procs[p].outcome # "BLOCK"
         /\ BlockConditions(procs[p]) => procs[p].outcome = "ASK"

----------------------------------------------------------------------------
(* The patterns main warns about and the patterns the history records       *)

\* the patterns of a list, whether they are tuples or lists
PatternsIn(list) == {list[i].v : i \in 1..Len(list)}

\* the invocation of p wrote the history of its session
ReachedHistoryUpdate(p) ==
  /\ InvocationStep(p)
  /\ procs'[p].outcome \notin {"NO_COMMAND", "SKIPPED", "FAIL_OPEN"}

\* C33: for every invocation that reaches the history update, the patterns
\* add_command_to_history merges into patterns_detected are the patterns
\* main detected for the command: each detected pattern is recorded and no
\* pattern is recorded that main did not detect
C33_RecordedPatternsAreDetected ==
  [][\A p \in Procs :
       ReachedHistoryUpdate(p)
         => LET before == load_command_history(files, procs'[p].session_id)
                after == load_command_history(files', procs'[p].session_id)
                detected == PatternsIn(procs'[p].workflow_patterns)
            IN  /\ detected \subseteq PatternsIn(after.patterns_detected)
                /\ PatternsIn(after.patterns_detected)
                     \subseteq PatternsIn(before.patterns_detected) \cup detected]_vars

----------------------------------------------------------------------------
(* Specification SpecSessionState: one invocation run twice, from two      *)
(* session states that hold the same last three commands and the same      *)
(* dedup set; the second one also holds older commands, a cumulative risk, *)
(* recorded patterns and files at risk.                                     *)

MaxOlderCommands == 1

\* the entries add_command_to_history leaves in history["commands"]
RecordedCommands ==
  {[command |-> CmdGitRm, risk |-> "MODERATE"],
   [command |-> CmdNpmTest, risk |-> "SAFE"],
   [command |-> CmdForcePush, risk |-> "DANGEROUS"]}

\* ~/.claude of session A with this history and this set of shown warnings
SessionStateFiles(history, shown_warnings) ==
  write_file(write_file(NoFiles, get_history_file("A"), history),
             get_state_file("A"), shown_warnings)

SessionStateInit ==
  /\ HookAbsent
  /\ \E recent \in [1..window_size_default -> RecordedCommands \ {[command |-> CmdForcePush, risk |-> "DANGEROUS"]}],
        older \in StringsUpTo(RecordedCommands, MaxOlderCommands),
        cumulative_risk \in {"LOW", "CRITICAL"},
        recorded \in {<<>>, <<PyList(DetectedTuple(WORKFLOW_PATTERNS[1]).v)>>},
        files_at_risk \in {<<>>, <<<<"x", "proj", "b">>>>},
        command \in {CmdForcePush, CmdRmRf, CmdNpmTest},
        shown \in BOOLEAN,
        cfg \in {c \in Configurations : c.backup_enabled},
        classifier_call \in {ClassifierResult(risk, "classifier") :
                               risk \in {"SAFE", "DANGEROUS"}},
        llm_result \in {NoValue, LLMResult("DANGEROUS")} :
       probe = [kind |-> "session_state",
                command |-> command,
                cfg |-> cfg,
                classifier_call |-> classifier_call,
                llm_result |-> llm_result,
                shown_warnings |-> IF shown THEN {get_warning_key(command)} ELSE {},
                first |-> [default_history EXCEPT !.commands = recent],
                second |-> [commands |-> older \o recent,
                            cumulative_risk |-> cumulative_risk,
                            patterns_detected |-> recorded,
                            files_at_risk |-> files_at_risk],
                state |-> "input",
                first_exit |-> NoValue,
                second_exit |-> NoValue]

\* main run on the probe's invocation from the given session history
main_from(history) ==
  LET fs == SessionStateFiles(history, probe.shown_warnings)
      kind == IF destruction_type(probe.command) = NoValue THEN "absent" ELSE "file"
      begun == begin(fs, probe.cfg, "A", probe.command)
  IN  main(fs, probe.cfg,
           [begun EXCEPT !.cwd = IF kind = "absent" THEN <<>> ELSE ProjectDir],
           probe.classifier_call, probe.llm_result, kind, FALSE)

ApplySessionState ==
  /\ probe.kind = "session_state"
  /\ probe.state = "input"
  /\ probe' = [probe EXCEPT !.state = "applied",
                            !.first_exit = main_from(probe.first),
                            !.second_exit = main_from(probe.second)]
  /\ UNCHANGED hookVars

SessionStateNext == ApplySessionState

SpecSessionState == SessionStateInit /\ [][SessionStateNext]_vars

\* C34: two runs of the same invocation from session states that agree on
\* the last 3 recorded commands and on the dedup set, and differ in the
\* cumulative risk, the recorded patterns, the files at risk or the older
\* commands, end in the same terminal state (outcome, exit code, output,
\* risk, detected patterns, backup) and leave the same dedup set; and a run
\* from a CRITICAL cumulative risk or with a detected CRITICAL pattern is
\* blocked only if the block conditions hold.
C34_DecisionReadsWindowAndDedupOnly ==
  (probe.kind = "session_state" /\ probe.state = "applied")
    => /\ probe.first_exit.proc = probe.second_exit.proc
       /\ load_state(probe.first_exit.files, "A")
            = load_state(probe.second_exit.files, "A")
       /\ probe.second_exit.proc.outcome = "BLOCK"
            => BlockConditions(probe.second_exit.proc)

\* an ASK reached from a CRITICAL cumulative risk with a CRITICAL pattern
\* detected, older commands and recorded patterns in the session
C34_Witness ==
  /\ probe.kind = "session_state"
  /\ probe.state = "applied"
  /\ probe.second.cumulative_risk = "CRITICAL"
  /\ Len(probe.second.commands) > window_size_default
  /\ probe.second.patterns_detected # <<>>
  /\ probe.second.files_at_risk # <<>>
  /\ probe.second_exit.proc.outcome = "ASK"
  /\ \E i \in 1..Len(probe.second_exit.proc.workflow_patterns) :
       probe.second_exit.proc.workflow_patterns[i].v[2] = "CRITICAL"

----------------------------------------------------------------------------
\* C35: when two invocations of the identical command text in one session
\* interleave their load_state / save_state steps, at most one of them
\* surfaces the ASK prompt, and after both have finished the dedup set
\* holds the key of the command together with every key it held before.
C35_OnePromptAndNoLostKey ==
  (BothFinished /\ procs[1].command = procs[2].command)
    => /\ ~(procs[1].outcome = "ASK" /\ procs[2].outcome = "ASK")
       /\ {get_warning_key(CmdForcePush), get_warning_key(procs[1].command)}
            \subseteq load_state(files, "A")

----------------------------------------------------------------------------
(* The post-action hook (src/hooks/deliberate-commands-post.py) and the     *)
(* hand-off through the cache file: each proposed command goes through the  *)
(* pre-action hook; a command that is not blocked, and whose prompt is not  *)
(* denied, is executed and the post-action hook then runs for it.           *)

\* faulty variant: the entry is left in place after it was read
load_from_cache_KeepsEntry(fs, session_id, cmd_hash) ==
  LET cache_file == get_cache_file(session_id, cmd_hash)
  IN  IF readable(fs[cache_file])
        THEN [data |-> fs[cache_file].json, files |-> fs]
        ELSE [data |-> NoValue, files |-> fs]

\* load_from_cache(session_id, cmd_hash) of the post-action hook: the
\* document read (None if there is no file or json.load raises) and the
\* files left; os.remove runs only after json.load succeeded
load_from_cache(fs, session_id, cmd_hash) ==
  LET cache_file == get_cache_file(session_id, cmd_hash)
  IN  IF readable(fs[cache_file])
        THEN [data |-> fs[cache_file].json,
              files |-> [fs EXCEPT ![cache_file] = NoValue]]
        ELSE [data |-> NoValue, files |-> fs]

\* main of the post-action hook: the message printed (None if nothing is
\* printed) and the files left
post_main(fs, session_id, command) ==
  IF command = CmdEmpty
    THEN [message |-> NoValue, files |-> fs]
  ELSE LET cached == load_from_cache(fs, session_id, cmd_hash_of(command))
       IN  IF cached.data = NoValue
             THEN [message |-> NoValue, files |-> fs]
             ELSE [message |-> [risk |-> cached.data.risk,
                                explanation |-> cached.data.explanation],
                   files |-> cached.files]

\* exit 2 of the pre-action hook, or the user's denial of its prompt: the
\* command is not executed and no post-action hook runs
CommandNotRun(p) ==
  /\ procs[p].outcome = "BLOCK" \/ procs[p].output = "ask"
  /\ HookExit(p)

\* exit 0 of the pre-action hook with no prompt, or the user's approval of
\* its prompt: the command is executed
CommandRuns(p) ==
  /\ procs[p].pc = "done"
  /\ procs[p].outcome # "BLOCK"
  /\ asked' = IF procs[p].output = "ask"
                THEN asked \cup {<<procs[p].session_id, procs[p].command>>}
                ELSE asked
  /\ procs' = [procs EXCEPT ![p].pc = "executed"]
  /\ UNCHANGED <<files, stale, backups, config, inputs, started, probe>>

\* one run of the post-action hook, for the command that was executed
PostHook(p) ==
  /\ procs[p].pc = "executed"
  /\ \E exit \in {post_main(files, procs[p].session_id, procs[p].command)} :
       /\ procs' = [procs EXCEPT ![p].pc = "post_done",
                                 ![p].displayed = exit.message]
       /\ files' = exit.files
  /\ UNCHANGED <<stale, backups, config, inputs, started, asked, probe>>

\* sys.exit(0) of the post-action hook
PostExit(p) ==
  /\ procs[p].pc = "post_done"
  /\ procs' = [procs EXCEPT ![p] = IdleProc]
  /\ UNCHANGED <<files, stale, backups, config, inputs, started, asked, probe>>

MaxPostInvocations == 2

PostCommands == {CmdEmpty, CmdLs, CmdShScript, CmdNpmTest}

InitPost ==
  /\ files = NoFiles
  /\ stale = {}
  /\ backups = {}
  /\ config \in {c \in Configurations : ~c.backup_enabled}
  /\ inputs = [sessions |-> Sessions,
               commands |-> PostCommands,
               classifier_answers |->
                 [i \in 1..MaxPostInvocations |->
                    {NoValue}
                      \cup {ClassifierResult(risk, "classifier") :
                              risk \in {"SAFE", "MODERATE", "DANGEROUS"}}],
               llm_answers |-> {NoValue, LLMResult("DANGEROUS")},
               max_invocations |-> MaxPostInvocations,
               cwds |-> {ProjectDir},
               seconds |-> {1},
               copy_failures |-> {{}}]
  /\ procs = [p \in Procs |-> IdleProc]
  /\ started = 0
  /\ asked = {}
  /\ probe = NoProbe

PostNext ==
  \E p \in Procs :
    \/ Hook(p)
    \/ CommandNotRun(p)
    \/ CommandRuns(p)
    \/ PostHook(p)
    \/ PostExit(p)

SpecPost == InitPost /\ [][PostNext]_vars

\* the step of the post-action hook of process p
PostStep(p) == procs[p].pc = "executed" /\ procs'[p].pc = "post_done"

\* C36: the post-action hook prints a message only if a cache entry exists
\* for the same session id and command text; the risk and the explanation
\* it prints are those of the entry, which the read removes, so that a
\* cached analysis is displayed at most once; with no entry it prints
\* nothing and changes no file.
C36_CachedAnalysisShownOnce ==
  [][\A p \in Procs :
       PostStep(p)
         => LET entry == files[cache_name(procs[p])]
                message == procs'[p].displayed
            IN  /\ message # NoValue
                     => /\ readable(entry)
                        /\ message.risk = entry.json.risk
                        /\ message.explanation = entry.json.explanation
                        /\ files'[cache_name(procs[p])] = NoValue
                /\ entry = NoValue
                     => message = NoValue /\ files' = files
                /\ \A name \in FileNames \ {cache_name(procs[p])} :
                     files'[name] = files[name]]_vars

\* the analysis of an executed command has been displayed, its entry is
\* gone, and an entry of the other session is still there
C36_Witness ==
  \E p \in Procs :
    /\ procs[p].pc = "post_done"
    /\ procs[p].displayed # NoValue
    /\ procs[p].displayed.risk = procs[p].risk
    /\ files[cache_name(procs[p])] = NoValue
    /\ \E name \in FileNames :
         name[1] = "deliberate_cmd_cache_" /\ files[name] # NoValue

\* C37: the analysis the post-action hook displays after an execution was
\* produced by the pre-action invocation of that execution: nothing is
\* displayed when that invocation ended before the cache write (skipped
\* or fail-open), and what is displayed is the risk it decided.
C37_DisplayedAnalysisIsOfThisExecution ==
  [][\A p \in Procs :
       (PostStep(p) /\ procs'[p].displayed # NoValue)
         => /\ procs[p].outcome \notin {"NO_COMMAND", "SKIPPED", "FAIL_OPEN"}
            /\ procs'[p].displayed.risk = procs[p].risk]_vars

----------------------------------------------------------------------------
\* C38: when the classifier is unavailable, a command that contains one of
\* the dangerous substrings is never given the risk SAFE by the fallback
\* pattern layer.
C38_DangerousSubstringNeverSafe ==
  (FallbackApplied /\ ContainsDangerousSubstring)
    => ~(probe.result # NoValue /\ probe.result.risk = "SAFE")

----------------------------------------------------------------------------
(* Specification SpecSkipLines: should_skip_command applied, with the      *)
(* default skip list, to commands of several lines: a first line, then     *)
(* lines that follow a newline with or without blanks around it.            *)

MaxFurtherLines == 1

\* ls, ls -la, pwd, git status, npm test
FirstLines ==
  {<<"l", "s">>,
   <<"l", "s", " ", "-", "l", "a">>,
   <<"p", "w", "d">>,
   <<"g", "i", "t", " ", "s", "t", "a", "t", "u", "s">>,
   <<"n", "p", "m", " ", "t", "e", "s", "t">>}

\* the end of a line: a newline alone, after a blank, before or after a tab
LineBreaks ==
  {<<"\n">>, <<" ", "\n">>, <<"\n", "\t">>, <<"\t", "\n">>}

\* rm -rf /, ls, x, git push --force
FurtherLines ==
  {<<"r", "m", " ", "-", "r", "f", " ", "/">>,
   <<"l", "s">>,
   <<"x">>,
   <<"g", "i", "t", " ", "p", "u", "s", "h", " ", "-", "-", "f", "o", "r", "c", "e">>}

\* a first line followed by at most n further lines
RECURSIVE CommandsOfLines(_)
CommandsOfLines(n) ==
  IF n = 0 THEN FirstLines
  ELSE LET shorter == CommandsOfLines(n - 1)
       IN  shorter \cup {text \o break \o line :
                           text \in shorter, break \in LineBreaks,
                           line \in FurtherLines}

SkipLinesInit ==
  /\ HookAbsent
  /\ \E command \in CommandsOfLines(MaxFurtherLines), cfg \in Configurations :
       probe = [kind |-> "skip",
                command |-> command,
                skip_set |-> load_skip_commands(cfg),
                state |-> "input",
                result |-> FALSE]

SpecSkipLines == SkipLinesInit /\ [][SkipNext]_vars

\* C39: should_skip_command returns false for every multi-line command: if
\* the trimmed command contains a newline, the command is not skipped.
C39_MultiLineNeverSkipped ==
  (/\ probe.kind = "skip"
   /\ probe.state = "applied"
   /\ contains(strip(probe.command), <<"\n">>))
    => ~probe.result

====
